---- MODULE Spec2Model ----
(***************************************************************************)
(* Model of the cloudbeat reporting kit: the reporter facade               *)
(* (cb-kit-common/src/reporter.py), the per-thread scope registry          *)
(* (ThreadContext), the step instrumentation wrappers                      *)
(* (cb-kit-common/src/cb.py) and the result-tree entities they drive.      *)
(*                                                                         *)
(* Conventions: object references are positive indexes into a heap          *)
(* sequence, 0 is Python's None for a reference; "None" is Python's None   *)
(* for a string-valued attribute.                                          *)
(***************************************************************************)
EXTENDS Integers, Sequences, FiniteSets, TLC

VARIABLES
    instance,   \* CbTestReporter._instance (class attribute): a reporter or "None"
    result,     \* per reporter: CbTestReporter._result (the TestResult)
    suitesH,    \* heap of SuiteResult objects
    casesH,     \* heap of CaseResult objects
    stepsH,     \* heap of StepResult objects
    ctx,        \* ThreadContext._thread_context (class attribute): thread -> OrderedDict
    frames,     \* per thread: the cb.step / cb.step_context activations in progress
    pushes,     \* case-status updates handed to RuntimeApiV2.update_case_status
    last,       \* what the most recent call did and what reached its caller
    nm,         \* the step-name resolution in progress (SpecName)
    net,        \* what the reporting backend does with the next status push
    rt,         \* the RuntimeApiV2 status-push call in progress (SpecPush)
    poll,       \* the ResultApiV1.get_result_by_run_id call in progress (SpecPoll)
    cerr,       \* the CbApiError under construction (SpecErr)
    v1,         \* the RuntimeApiV1 call in progress (SpecV1)
    fx,         \* the failure being derived from an exception (SpecFail)
    js,         \* the serialization or request body being built (SpecJson)
    tc,         \* the keys of ThreadContext._thread_context, the threads alive and
                \* the ThreadContext.cleanup pass in progress (SpecCtx)
    lsn         \* CbWebDriverListener: _pending_find and _pending_find_step (SpecListen)

vars == <<instance, result, suitesH, casesH, stepsH, ctx, frames, pushes, last, nm,
          net, rt, poll, cerr, v1, fx, js, tc, lsn>>

\* the state of the helpers that work on values alone (helpers.py, json_util.py,
\* the V1 calls of client.py), of the threads and of the WebDriver listener:
\* what the reporter's operations leave alone
util == <<v1, fx, js, tc, lsn>>

\* the state of the API client calls (client.py)
client == <<net, rt, poll, cerr>>

(***************************************************************************)
(* Bounds                                                                  *)
(***************************************************************************)
MaxSuites == 2
MaxCases  == 2
MaxSteps  == 2
MaxFrames == 2
MaxTpl    == 2
MaxPushes == 2

None == "None"

Threads   == {"T1", "T2"}
Reporters == {"R1", "R2"}

\* TestStatus literals
PASSED  == "PASSED"
FAILED  == "FAILED"
SKIPPED == "SKIPPED"

\* values a wrapped function may return
Values == {41, 42}

\* classes of the errors the wrapped work may raise; KeyboardInterrupt stands
\* for the classes that derive from BaseException but not from Exception
\* (KeyboardInterrupt, SystemExit, pytest's Failed / Skipped outcomes)
Errors == {"ValueError", "AssertionError", "KeyboardInterrupt"}

\* isinstance(e, Exception): what an `except Exception` clause catches
IsException(e) == e # "KeyboardInterrupt"

\* the thread that constructed reporter r (ThreadContext._init_thread)
init_thread(r) == "T1"

\* whether reporter r was configured with api_endpoint_url and api_token
api_client(r) == r = "R1"

(***************************************************************************)
(* helpers.get_failure_from_exception.  An exception class is described by *)
(* module (__module__, its dotted components), name (__name__, as pieces   *)
(* of text) and assertion (the class is AssertionError or derives from it).*)
(***************************************************************************)
ExcClasses ==
    [ValueError |-> [module |-> <<"builtins">>, name |-> <<"ValueError">>,
                     assertion |-> FALSE],
     AssertionError |-> [module |-> <<"builtins">>, name |-> <<"AssertionError">>,
                         assertion |-> TRUE],
     KeyboardInterrupt |-> [module |-> <<"builtins">>, name |-> <<"KeyboardInterrupt">>,
                            assertion |-> FALSE],
     NoSuchElementException |-> [module |-> <<"selenium", "common", "exceptions">>,
                                 name |-> <<"NoSuchElementException">>,
                                 assertion |-> FALSE],
     \* class PageTimeout(selenium.common.exceptions.TimeoutException), user code
     PageTimeout |-> [module |-> <<"tests", "pages">>, name |-> <<"PageTimeout">>,
                      assertion |-> FALSE],
     \* class SoftAssertionError(AssertionError), user code
     SoftAssertionError |-> [module |-> <<"tests", "checks">>,
                             name |-> <<"Soft", "AssertionError">>, assertion |-> TRUE],
     \* class Mismatch(AssertionError), user code
     Mismatch |-> [module |-> <<"tests", "checks">>, name |-> <<"Mismatch">>,
                   assertion |-> TRUE],
     \* class NoAssertionError(Exception), user code
     NoAssertionError |-> [module |-> <<"tests", "checks">>,
                           name |-> <<"No", "AssertionError">>, assertion |-> FALSE]]

\* str.startswith, on sequences of pieces
StartsWith(s, p) == Len(s) >= Len(p) /\ SubSeq(s, 1, Len(p)) = p

\* `x in s`, for a piece x
Contains(s, x) == \E i \in 1..Len(s) : s[i] = x

\* the failure type chosen from the module and the name of the class
failure_type(cls) ==
    IF StartsWith(cls.module, <<"selenium", "common", "exceptions">>) THEN "SELENIUM_ERROR"
    ELSE IF Contains(cls.name, "AssertionError") THEN "ASSERT_ERROR"
    ELSE "GENERAL_ERROR"

\* the failure type ("None": no failure object) derived from an exception
\* of class e
get_failure_from_exception(e) ==
    IF e = None THEN None ELSE failure_type(ExcClasses[e])

(***************************************************************************)
(* ThreadContext: an OrderedDict is a sequence of [key, val] items         *)
(***************************************************************************)
Last(s) == s[Len(s)]

HasKey(od, k) == \E i \in 1..Len(od) : od[i].key = k

\* OrderedDict.get(key): the value, or 0 (None) when the key is absent
OdGet(od, k) ==
    IF HasKey(od, k)
    THEN LET i == CHOOSE j \in 1..Len(od) : od[j].key = k IN od[i].val
    ELSE 0

\* OrderedDict.__setitem__: a new key is appended, an existing key keeps
\* its position
OdSet(od, k, v) ==
    IF HasKey(od, k)
    THEN [i \in 1..Len(od) |-> IF od[i].key = k THEN [key |-> k, val |-> v] ELSE od[i]]
    ELSE Append(od, [key |-> k, val |-> v])

\* ThreadContext.thread_context raises StopIteration: next() on the empty
\* reversed view of the initializing thread's dict
ContextRaises(c, t, r) ==
    /\ c[t] = <<>>
    /\ t # init_thread(r)
    /\ c[init_thread(r)] = <<>>

\* thread_context inheriting the first entry of the initializing thread
\* instead of the most recently set one
thread_context_first(c, t, r) ==
    IF c[t] = <<>> /\ t # init_thread(r) /\ c[init_thread(r)] # <<>>
    THEN [c EXCEPT ![t] = <<c[init_thread(r)][1]>>]
    ELSE c

\* ThreadContext.thread_context: the registry after the property was read by
\* thread t (an empty non-initializing thread copies the last item of the
\* initializing thread)
thread_context(c, t, r) ==
    IF c[t] = <<>> /\ t # init_thread(r) /\ c[init_thread(r)] # <<>>
    THEN [c EXCEPT ![t] = <<Last(c[init_thread(r)])>>]
    ELSE c

\* ThreadContext.get(key) as seen by thread t (after thread_context)
ContextGet(c, t, r, k) == OdGet(thread_context(c, t, r)[t], k)

\* ContextSet writing into the scope of the initializing thread
ContextSet_shared(c, t, r, k, v) ==
    LET c1 == thread_context(c, t, r) IN
    [c1 EXCEPT ![init_thread(r)] = OdSet(c1[init_thread(r)], k, v)]

\* ThreadContext.__setitem__
ContextSet(c, t, r, k, v) ==
    LET c1 == thread_context(c, t, r) IN [c1 EXCEPT ![t] = OdSet(c1[t], k, v)]

(***************************************************************************)
(* Result tree entities (cloudbeat_common.models): lifecycle transitions   *)
(***************************************************************************)
NewRun   == [started |-> FALSE, ended |-> FALSE, suites |-> <<>>]
NewSuite == [status |-> None, ended |-> FALSE, cases |-> <<>>]
NewCase  == [status |-> None, ended |-> FALSE, failure |-> None,
             steps |-> <<>>, hooks |-> <<>>, stack |-> <<>>]
\* owner: the thread that opened the step, while the step is open
\* (bookkeeping of the model, not an attribute of StepResult)
NewStep(t) == [status |-> None, ended |-> FALSE, failure |-> None,
               screenshot |-> None, steps |-> <<>>, owner |-> t]

\* StepResult.end(status, exception): an explicit status wins, otherwise the
\* status follows from the failure; an ended step stays as it is
StepEnd(s, status, e) ==
    IF s.ended THEN s
    ELSE LET f == get_failure_from_exception(e) IN
         [s EXCEPT !.ended = TRUE,
                   !.owner = None,
                   !.failure = f,
                   !.status = IF status # None THEN status
                              ELSE IF f # None THEN FAILED ELSE PASSED]

\* CaseResult.start_step: the new step becomes a child of the innermost open
\* step of the case (or a top-level step) and is pushed on the case's stack
CaseStartStep(S, c, t) ==
    LET id  == Len(S.stepsH) + 1
        stk == S.casesH[c].stack
        sH1 == Append(S.stepsH, NewStep(t))
        sH2 == IF stk = <<>> THEN sH1
               ELSE [sH1 EXCEPT ![Last(stk)].steps = Append(@, id)]
        cH1 == IF stk = <<>>
               THEN [S.casesH EXCEPT ![c].steps = Append(@, id), ![c].stack = Append(@, id)]
               ELSE [S.casesH EXCEPT ![c].stack = Append(@, id)]
    IN  [S EXCEPT !.stepsH = sH2, !.casesH = cH1, !.ret = id]

\* CaseResult.end_step: pops the innermost open step and ends it; None when
\* no step is open
CaseEndStep(S, c, status, e) ==
    LET stk == S.casesH[c].stack IN
    IF stk = <<>> THEN [S EXCEPT !.ret = 0]
    ELSE LET id == Last(stk) IN
         [S EXCEPT !.stepsH[id] = StepEnd(@, status, e),
                   !.casesH[c].stack = SubSeq(stk, 1, Len(stk) - 1),
                   !.ret = id]

\* CaseResult.start_hook: a hook is a step kept in the case's hooks
CaseStartHook(S, c, t) ==
    LET id == Len(S.stepsH) + 1 IN
    [S EXCEPT !.stepsH = Append(@, NewStep(t)),
              !.casesH[c].hooks = Append(@, id),
              !.ret = id]

\* CaseResult.end_hook: ends the most recently started hook
CaseEndHook(S, c, status) ==
    LET hs == S.casesH[c].hooks IN
    IF hs = <<>> THEN [S EXCEPT !.ret = 0]
    ELSE [S EXCEPT !.stepsH[Last(hs)] = StepEnd(@, status, None), !.ret = Last(hs)]

\* CaseResult.end(status, failure)
CaseEnd(S, c, status, e) ==
    LET cs == S.casesH[c]
        f  == get_failure_from_exception(e)
        anyFailed == \E i \in 1..Len(cs.steps) : S.stepsH[cs.steps[i]].status = FAILED
    IN  IF cs.ended THEN S
        ELSE [S EXCEPT !.casesH[c].ended = TRUE,
                       !.casesH[c].failure = f,
                       !.casesH[c].status =
                           IF status # None THEN status
                           ELSE IF f # None \/ anyFailed THEN FAILED ELSE PASSED]

\* SuiteResult.end(): the status aggregates the statuses of the cases
SuiteStatus(S, s) ==
    LET cs == S.suitesH[s].cases IN
    IF \E i \in 1..Len(cs) : S.casesH[cs[i]].status = FAILED THEN FAILED
    ELSE IF \E i \in 1..Len(cs) : S.casesH[cs[i]].status = SKIPPED THEN SKIPPED
    ELSE PASSED

SuiteEnd(S, s) ==
    IF S.suitesH[s].ended THEN S
    ELSE [S EXCEPT !.suitesH[s].ended = TRUE, !.suitesH[s].status = SuiteStatus(S, s)]

(***************************************************************************)
(* RuntimeApiV2 (client.py): the status-push calls.  A call is described   *)
(* by perr, the class of the exception building the payload raises         *)
(* ("None": the payload is built), and by what the backend does with the   *)
(* request:                                                                *)
(*   "ok"  "http401"  "http500"   a response with that status arrives      *)
(*   "ConnectionError"  "Timeout" requests raises that exception           *)
(* The outcome of a call: exc, the exception class that leaves the call    *)
(* ("None": it returns None), posted (the request was sent), logged        *)
(* (logger.error recorded the failure).                                    *)
(***************************************************************************)
Backend == {"ok", "http401", "http500", "ConnectionError", "Timeout"}

PayloadErrors == {None, "TypeError"}

PushCalls == {"add_instance_result", "update_instance_status",
              "update_case_status", "update_suite_status"}

\* _CbRestApiClient._post: the response is returned whatever its status
\* (no raise_for_status); a transport failure raises
session_post(n) ==
    IF n \in {"ConnectionError", "Timeout"}
    THEN [exc |-> n, status |-> 0]
    ELSE [exc |-> None, status |-> IF n = "ok" THEN 200
                                   ELSE IF n = "http401" THEN 401 ELSE 500]

\* try_post with the exception re-raised after it was logged
try_post_reraise(perr, n) ==
    LET x == IF perr # None THEN perr ELSE session_post(n).exc IN
    [exc |-> x, posted |-> perr = None, logged |-> x # None]

\* the body shared by the status-push methods:
\*   try: self._post(path, json_data=<payload>)
\*   except Exception as exc: logger.error(...)
try_post(perr, n) ==
    LET x == IF perr # None THEN perr ELSE session_post(n).exc IN
    IF x = None THEN [exc |-> None, posted |-> TRUE, logged |-> FALSE]
    ELSE IF IsException(x)
    THEN [exc |-> None, posted |-> perr = None, logged |-> TRUE]
    ELSE [exc |-> x, posted |-> perr = None, logged |-> FALSE]

\* RuntimeApiV2.add_instance_result: the payload (a dict as it is, anything
\* else through to_json / json.loads) is built inside the try
RuntimeApiV2_add_instance_result(perr, n) == try_post(perr, n)

\* RuntimeApiV2.update_instance_status
RuntimeApiV2_update_instance_status(perr, n) == try_post(perr, n)

\* update_case_status with response.raise_for_status() called after the try
RuntimeApiV2_update_case_status_strict(perr, n) ==
    LET res == try_post(perr, n) IN
    IF res.posted /\ ~res.logged /\ session_post(n).status >= 400
    THEN [res EXCEPT !.exc = "HTTPError"]
    ELSE res

\* RuntimeApiV2.update_case_status
RuntimeApiV2_update_case_status(perr, n) == try_post(perr, n)

\* RuntimeApiV2.update_suite_status
RuntimeApiV2_update_suite_status(perr, n) == try_post(perr, n)

(***************************************************************************)
(* The program state as one record, so that a call made inside another     *)
(* call (a wrapper calling the reporter) composes.  ret / exc / sent /     *)
(* logged are the outcome of the call: the reference or value returned     *)
(* (0: None), the exception class that left the call ("None": returned     *)
(* normally), the number of case-status updates the call handed to the API *)
(* client, and the number of failures the client logged.                   *)
(***************************************************************************)
Cur ==
    [instance |-> instance, result |-> result, suitesH |-> suitesH,
     casesH |-> casesH, stepsH |-> stepsH, ctx |-> ctx, pushes |-> pushes,
     net |-> net, ret |-> 0, exc |-> None, sent |-> 0, logged |-> 0]

\* `if self._api_client: self._api_client.update_case_status(...)` in the
\* reporter: the update is handed to the client; an exception leaving the
\* client would leave the reporter call
update_case_status(S, r, kind, c) ==
    IF api_client(r)
    THEN LET res == RuntimeApiV2_update_case_status(None, S.net)
             S1  == [S EXCEPT !.pushes = @ \cup {[kind |-> kind, case |-> c,
                                                  status |-> IF kind = "Finished"
                                                             THEN S.casesH[c].status
                                                             ELSE None]},
                              !.sent = @ + 1,
                              !.logged = @ + (IF res.logged THEN 1 ELSE 0)]
         IN  IF res.exc = None THEN S1 ELSE [S1 EXCEPT !.exc = res.exc, !.ret = 0]
    ELSE S

(***************************************************************************)
(* CbTestReporter (reporter.py)                                            *)
(***************************************************************************)
\* CbTestReporter.get_instance
get_instance(S) == S.instance

\* CbTestReporter.start_instance
start_instance(S, r) ==
    [S EXCEPT !.instance = r,
              !.result[r] = [started |-> TRUE, ended |-> FALSE, suites |-> <<>>]]

\* CbTestReporter.end_instance
end_instance(S, r) ==
    LET S1 == [S EXCEPT !.instance = None] IN
    IF ~S.result[r].started THEN S1
    ELSE [S1 EXCEPT !.result[r].ended = TRUE]

\* the states of a run: UNSTARTED, STARTED, ENDED
RunState(S, r) ==
    IF ~S.result[r].started THEN "UNSTARTED"
    ELSE IF S.result[r].ended THEN "ENDED" ELSE "STARTED"

\* CbTestReporter.start_suite
start_suite(S, t, r) ==
    IF ~S.result[r].started THEN [S EXCEPT !.ret = 0]
    ELSE LET id == Len(S.suitesH) + 1
             S1 == [S EXCEPT !.suitesH = Append(@, NewSuite),
                             !.result[r].suites = Append(@, id)]
         IN  IF ContextRaises(S.ctx, t, r) THEN [S1 EXCEPT !.exc = "StopIteration"]
             ELSE [S1 EXCEPT !.ctx = ContextSet(ContextSet(S.ctx, t, r, "suite", id),
                                                t, r, "case", 0),
                             !.ret = id]

\* end_suite returning the current suite without ending it
end_suite_noend(S, t, r) ==
    IF ContextRaises(S.ctx, t, r) THEN [S EXCEPT !.exc = "StopIteration"]
    ELSE LET S1 == [S EXCEPT !.ctx = thread_context(S.ctx, t, r)] IN
         [S1 EXCEPT !.ret = OdGet(S1.ctx[t], "suite")]

\* CbTestReporter.end_suite
end_suite(S, t, r) ==
    IF ContextRaises(S.ctx, t, r) THEN [S EXCEPT !.exc = "StopIteration"]
    ELSE LET S1 == [S EXCEPT !.ctx = thread_context(S.ctx, t, r)]
             s  == OdGet(S1.ctx[t], "suite")
         IN  IF s = 0 THEN [S1 EXCEPT !.ret = 0]
             ELSE [SuiteEnd(S1, s) EXCEPT !.ret = s]

\* CbTestReporter.start_case
start_case(S, t, r) ==
    IF ContextRaises(S.ctx, t, r) THEN [S EXCEPT !.exc = "StopIteration"]
    ELSE LET S1 == [S EXCEPT !.ctx = thread_context(S.ctx, t, r)]
             s  == OdGet(S1.ctx[t], "suite")
             id == Len(S.casesH) + 1
         IN  IF s = 0 THEN [S1 EXCEPT !.ret = 0]
             ELSE LET S2 == [S1 EXCEPT !.casesH = Append(@, NewCase),
                                       !.suitesH[s].cases = Append(@, id),
                                       !.ctx = ContextSet(S1.ctx, t, r, "case", id),
                                       !.ret = id]
                  IN  update_case_status(S2, r, "Running", id)

\* end_case with skip_api ignored
end_case_ignore_skip(S, t, r, status, e, skip_api) ==
    IF ContextRaises(S.ctx, t, r) THEN [S EXCEPT !.exc = "StopIteration"]
    ELSE LET S1 == [S EXCEPT !.ctx = thread_context(S.ctx, t, r)]
             c  == OdGet(S1.ctx[t], "case")
         IN  IF c = 0 THEN [S1 EXCEPT !.ret = 0]
             ELSE LET S2 == [CaseEnd(S1, c, status, e) EXCEPT !.ret = c] IN
                  update_case_status(S2, r, "Finished", c)

\* CbTestReporter.end_case
end_case(S, t, r, status, e, skip_api) ==
    IF ContextRaises(S.ctx, t, r) THEN [S EXCEPT !.exc = "StopIteration"]
    ELSE LET S1 == [S EXCEPT !.ctx = thread_context(S.ctx, t, r)]
             c  == OdGet(S1.ctx[t], "case")
         IN  IF c = 0 THEN [S1 EXCEPT !.ret = 0]
             ELSE LET S2 == [CaseEnd(S1, c, status, e) EXCEPT !.ret = c] IN
                  IF skip_api THEN S2 ELSE update_case_status(S2, r, "Finished", c)

\* CbTestReporter.start_case_hook
start_case_hook(S, t, r) ==
    IF ContextRaises(S.ctx, t, r) THEN [S EXCEPT !.exc = "StopIteration"]
    ELSE LET S1 == [S EXCEPT !.ctx = thread_context(S.ctx, t, r)]
             c  == OdGet(S1.ctx[t], "case")
         IN  IF c = 0 THEN [S1 EXCEPT !.ret = 0] ELSE CaseStartHook(S1, c, t)

\* CbTestReporter.end_case_hook
end_case_hook(S, t, r, status) ==
    IF ContextRaises(S.ctx, t, r) THEN [S EXCEPT !.exc = "StopIteration"]
    ELSE LET S1 == [S EXCEPT !.ctx = thread_context(S.ctx, t, r)]
             c  == OdGet(S1.ctx[t], "case")
         IN  IF c = 0 THEN [S1 EXCEPT !.ret = 0] ELSE CaseEndHook(S1, c, status)

\* CbTestReporter.start_step
start_step(S, t, r) ==
    IF ContextRaises(S.ctx, t, r) THEN [S EXCEPT !.exc = "StopIteration"]
    ELSE LET S1 == [S EXCEPT !.ctx = thread_context(S.ctx, t, r)]
             c  == OdGet(S1.ctx[t], "case")
         IN  IF c = 0 THEN [S1 EXCEPT !.ret = 0] ELSE CaseStartStep(S1, c, t)

\* CbTestReporter.end_step
end_step(S, t, r, status, e) ==
    IF ContextRaises(S.ctx, t, r) THEN [S EXCEPT !.exc = "StopIteration"]
    ELSE LET S1 == [S EXCEPT !.ctx = thread_context(S.ctx, t, r)]
             c  == OdGet(S1.ctx[t], "case")
         IN  IF c = 0 THEN [S1 EXCEPT !.ret = 0] ELSE CaseEndStep(S1, c, status, e)

(***************************************************************************)
(* Step instrumentation (cb.py): cb.step (bare and named) and              *)
(* cb.step_context.  An activation in progress is a frame:                 *)
(*   form  "step" or "step_context"                                        *)
(*   rep   the reporter get_instance() returned at entry ("None": none)    *)
(*   own   the step start_step returned at entry (0: None)                 *)
(*   case  the case that step belongs to (0: none)                         *)
(*   base  the depth of that case's open-step stack before entry           *)
(* own, case and base are bookkeeping of the model: the code keeps only    *)
(* the reporter.                                                           *)
(***************************************************************************)
Forms == {"step", "step_context"}

\* wrapper entry: reporter = get_instance(); if there is one, start_step
wrapper_enter(S, t) ==
    LET r == get_instance(S) IN
    IF r = None THEN S ELSE start_step(S, t, r)

\* the `except Exception` clause of the wrappers
Catches(e) == IsException(e)

\* step_exit with the error of the work swallowed when no reporter is active
step_exit_swallow(S, t, f, kind, v, e) ==
    IF f.rep = None
    THEN [S EXCEPT !.ret = IF kind = "return" THEN v ELSE 0, !.exc = None]
    ELSE IF kind = "return"
    THEN LET S1 == end_step(S, t, f.rep, PASSED, None) IN
         IF S1.exc # None THEN S1 ELSE [S1 EXCEPT !.ret = v]
    ELSE IF Catches(e)
    THEN [end_step(S, t, f.rep, FAILED, e) EXCEPT !.ret = 0, !.exc = e]
    ELSE [S EXCEPT !.ret = 0, !.exc = e]

\* step_exit without `return result`: the wrapper returns None
step_exit_drop_result(S, t, f, kind, v, e) ==
    IF f.rep = None
    THEN [S EXCEPT !.ret = IF kind = "return" THEN v ELSE 0,
                   !.exc = IF kind = "raise" THEN e ELSE None]
    ELSE IF kind = "return"
    THEN [end_step(S, t, f.rep, PASSED, None) EXCEPT !.ret = 0]
    ELSE IF Catches(e)
    THEN [end_step(S, t, f.rep, FAILED, e) EXCEPT !.ret = 0, !.exc = e]
    ELSE [S EXCEPT !.ret = 0, !.exc = e]

\* cb.step wrapper after the wrapped function f finished: kind "return"
\* with value v, or kind "raise" with an exception of class e
step_exit(S, t, f, kind, v, e) ==
    IF f.rep = None
    THEN [S EXCEPT !.ret = IF kind = "return" THEN v ELSE 0,
                   !.exc = IF kind = "raise" THEN e ELSE None]
    ELSE IF kind = "return"
    THEN LET S1 == end_step(S, t, f.rep, PASSED, None) IN
         IF S1.exc # None THEN S1 ELSE [S1 EXCEPT !.ret = v]
    ELSE IF Catches(e)
    THEN [end_step(S, t, f.rep, FAILED, e) EXCEPT !.ret = 0, !.exc = e]
    ELSE [S EXCEPT !.ret = 0, !.exc = e]

\* step_context_exit without end_step on the normal path
step_context_exit_noend(S, t, f, kind, v, e) ==
    IF f.rep = None
    THEN [S EXCEPT !.ret = 0, !.exc = IF kind = "raise" THEN e ELSE None]
    ELSE IF kind = "return"
    THEN [S EXCEPT !.ret = 0]
    ELSE IF Catches(e)
    THEN [end_step(S, t, f.rep, FAILED, e) EXCEPT !.ret = 0, !.exc = e]
    ELSE [S EXCEPT !.ret = 0, !.exc = e]

\* cb.step_context after the block finished (a block has no value: v is 0)
step_context_exit(S, t, f, kind, v, e) ==
    IF f.rep = None
    THEN [S EXCEPT !.ret = 0, !.exc = IF kind = "raise" THEN e ELSE None]
    ELSE IF kind = "return"
    THEN [end_step(S, t, f.rep, PASSED, None) EXCEPT !.ret = 0]
    ELSE IF Catches(e)
    THEN [end_step(S, t, f.rep, FAILED, e) EXCEPT !.ret = 0, !.exc = e]
    ELSE [S EXCEPT !.ret = 0, !.exc = e]

wrapper_exit(S, t, f, kind, v, e) ==
    IF f.form = "step" THEN step_exit(S, t, f, kind, v, e)
    ELSE step_context_exit(S, t, f, kind, v, e)

\* an exception that no frame of the thread handles leaves every activation
\* of the thread, innermost first
RECURSIVE Unwind(_, _, _, _)
Unwind(S, t, fs, e) ==
    IF fs = <<>> THEN S
    ELSE Unwind(wrapper_exit(S, t, Last(fs), "raise", 0, e), t,
                SubSeq(fs, 1, Len(fs) - 1), e)

(***************************************************************************)
(* Actions                                                                 *)
(***************************************************************************)
NoWork == [kind |-> "none", val |-> 0, err |-> None]

NoName == [pc |-> "idle", tpl |-> <<>>, bound |-> FALSE, args |-> {}, attrs |-> {},
           name |-> <<>>, exc |-> None, invoked |-> FALSE]

\* empty: the scope of the calling thread held no entry when the call began
Call(op, t, r, S, w) ==
    [op |-> op, t |-> t, r |-> r, ret |-> S.ret, exc |-> S.exc, sent |-> S.sent,
     logged |-> S.logged, empty |-> ctx[t] = <<>>, work |-> w]

\* the state after a call, within the bounds of the model
Commit(S) ==
    /\ Len(S.suitesH) <= MaxSuites
    /\ Len(S.casesH) <= MaxCases
    /\ Len(S.stepsH) <= MaxSteps
    /\ instance' = S.instance
    /\ result' = S.result
    /\ suitesH' = S.suitesH
    /\ casesH' = S.casesH
    /\ stepsH' = S.stepsH
    /\ ctx' = S.ctx
    /\ pushes' = S.pushes

\* the case thread t would find as its current case (0: none)
CurrentCase(t, r) ==
    IF ContextRaises(ctx, t, r) THEN 0 ELSE ContextGet(ctx, t, r, "case")

CurrentSuite(t, r) ==
    IF ContextRaises(ctx, t, r) THEN 0 ELSE ContextGet(ctx, t, r, "suite")

\* Scope discipline of the callers: the steps of a case are driven by one
\* thread at a time (every step open in the current case of t was opened by t)
Drives(t, r) ==
    LET c == CurrentCase(t, r) IN
    IF c = 0 THEN TRUE
    ELSE \A i \in 1..Len(casesH[c].stack) : stepsH[casesH[c].stack[i]].owner = t

\* the run not started, no scope, no step in progress.  tc: the registry
\* holds no key, every thread is alive, no cleanup is running
\*   keys     the keys of the defaultdict, in insertion order
\*   alive    the threads for which is_alive() is true
\*   recent   the item most recently assigned on the initializing thread
\*            (bookkeeping of the model), a sequence of at most one item
\*   pc, by   the cleanup pass: "idle" or "iter", and the thread running it
\*   used     the size of the dict when the iterator of the pass was created
\*   pos      the keys the iterator has yielded
\*   stopped_threads   the local list of the pass
\*   dead     the threads that were not alive when the pass began
\*            (bookkeeping of the model)
\* lsn: the listener as constructed, no find pending
InitTree ==
    /\ tc = [keys |-> <<>>, alive |-> Threads, recent |-> <<>>, pc |-> "idle",
             by |-> None, used |-> 0, pos |-> 0, stopped_threads |-> <<>>,
             dead |-> {}]
    /\ lsn = [pending_find |-> None, pending_find_step |-> 0]
    /\ instance = None
    /\ result = [r \in Reporters |-> NewRun]
    /\ suitesH = <<>>
    /\ casesH = <<>>
    /\ stepsH = <<>>
    /\ ctx = [t \in Threads |-> <<>>]
    /\ frames = [t \in Threads |-> <<>>]
    /\ pushes = {}
    /\ last = [op |-> "init", t |-> "T1", r |-> None, ret |-> 0, exc |-> None,
               sent |-> 0, logged |-> 0, empty |-> TRUE, work |-> NoWork]

\* no API client call in progress, the backend answers
\* n: the calls made so far; nlog: the failures logger.error recorded so far
NoPush == [pc |-> "idle", call |-> None, perr |-> None, net |-> "ok",
           exc |-> None, posted |-> FALSE, logged |-> FALSE, n |-> 0, nlog |-> 0]

NoPoll == [pc |-> "idle", i |-> 0, delay |-> 0, gets |-> 0, log |-> <<>>,
           ret |-> None, exc |-> None]

NoErr == [pc |-> "idle", response |-> FALSE, status |-> 0, reason |-> "",
          body |-> [kind |-> "null", em |-> "", errs |-> <<>>, strs |-> TRUE],
          given |-> "", msg |-> <<>>]

\* no V1 call, no failure derivation, no serialization in progress
Idle == [pc |-> "idle"]

Init ==
    /\ InitTree /\ nm = NoName
    /\ net = "ok" /\ rt = NoPush /\ poll = NoPoll /\ cerr = NoErr
    /\ v1 = Idle /\ fx = Idle /\ js = Idle

StartInstance(r) ==
    /\ Commit(start_instance(Cur, r))
    /\ last' = Call("start_instance", init_thread(r), r, Cur, NoWork)
    /\ UNCHANGED <<frames, nm, client, util>>

EndInstance(r) ==
    /\ Commit(end_instance(Cur, r))
    /\ last' = Call("end_instance", init_thread(r), r, Cur, NoWork)
    /\ UNCHANGED <<frames, nm, client, util>>

\* the host calls the suite and case operations between the instrumented
\* units of work of a thread, never from inside one
StartSuite(t, r) ==
    /\ frames[t] = <<>>
    /\ LET S == start_suite(Cur, t, r) IN
          Commit(S) /\ last' = Call("start_suite", t, r, S, NoWork)
    /\ UNCHANGED <<frames, nm, client, util>>

EndSuite(t, r) ==
    /\ LET S == end_suite(Cur, t, r) IN
          Commit(S) /\ last' = Call("end_suite", t, r, S, NoWork)
    /\ UNCHANGED <<frames, nm, client, util>>

StartCase(t, r) ==
    /\ frames[t] = <<>>
    /\ LET S == start_case(Cur, t, r) IN
          Commit(S) /\ last' = Call("start_case", t, r, S, NoWork)
    /\ UNCHANGED <<frames, nm, client, util>>

EndCase(t, r) ==
    /\ \E se \in {<<None, None>>, <<None, "AssertionError">>, <<SKIPPED, None>>},
          skip_api \in BOOLEAN :
          /\ LET S == end_case(Cur, t, r, se[1], se[2], skip_api) IN
                Commit(S) /\ last' = Call("end_case", t, r, S,
                                          [kind |-> IF skip_api THEN "skip_api" ELSE "none",
                                           val |-> 0, err |-> se[2], status |-> se[1]])
    /\ UNCHANGED <<frames, nm, client, util>>

StartCaseHook(t, r) ==
    /\ LET S == start_case_hook(Cur, t, r) IN
          Commit(S) /\ last' = Call("start_case_hook", t, r, S, NoWork)
    /\ UNCHANGED <<frames, nm, client, util>>

EndCaseHook(t, r) ==
    /\ \E status \in {None, PASSED, FAILED} :
          LET S == end_case_hook(Cur, t, r, status) IN
             Commit(S) /\ last' = Call("end_case_hook", t, r, S, NoWork)
    /\ UNCHANGED <<frames, nm, client, util>>

\* start_step / end_step called directly (as the WebDriver listener does)
StartStep(t, r) ==
    /\ frames[t] = <<>>
    /\ Drives(t, r)
    /\ LET S == start_step(Cur, t, r) IN
          Commit(S) /\ last' = Call("start_step", t, r, S, NoWork)
    /\ UNCHANGED <<frames, nm, client, util>>

EndStep(t, r) ==
    /\ frames[t] = <<>>
    /\ Drives(t, r)
    /\ \E se \in {<<None, None>>, <<PASSED, None>>, <<FAILED, "ValueError">>} :
          LET S == end_step(Cur, t, r, se[1], se[2]) IN
             Commit(S) /\ last' = Call("end_step", t, r, S, NoWork)
    /\ UNCHANGED <<frames, nm, client, util>>

RECURSIVE SumLen(_, _)
SumLen(f, D) ==
    IF D = {} THEN 0
    ELSE LET x == CHOOSE y \in D : TRUE IN Len(f[x]) + SumLen(f, D \ {x})

\* the number of activations in progress on all threads
OpenFrames == SumLen(frames, Threads)

\* an exception leaving start_step at entry: contextlib turns a StopIteration
\* raised inside the step_context generator into a RuntimeError
EnterExc(form, x) ==
    IF form = "step_context" /\ x = "StopIteration" THEN "RuntimeError" ELSE x

\* a cb.step-wrapped function is called, or a cb.step_context block entered
Enter(t, form) ==
    /\ OpenFrames < MaxFrames
    /\ LET r == get_instance(Cur)
           c == IF r = None THEN 0 ELSE CurrentCase(t, r)
           S == wrapper_enter(Cur, t)
       IN  /\ IF r = None THEN TRUE ELSE Drives(t, r)
           /\ Commit(S)
           /\ last' = Call("enter", t, r, [S EXCEPT !.exc = EnterExc(form, S.exc)], NoWork)
           /\ frames' = IF S.exc # None THEN frames
                        ELSE [frames EXCEPT ![t] = Append(@,
                                [form |-> form, rep |-> r, own |-> S.ret,
                                 case |-> IF S.ret = 0 THEN 0 ELSE c,
                                 base |-> IF S.ret = 0 THEN 0
                                          ELSE Len(casesH[c].stack)])]
    /\ UNCHANGED <<nm, client, util>>

\* the innermost wrapped work of thread t returns v, or raises an exception
\* of a class derived from Exception; the wrapper hands the outcome on
Exit(t, kind, v, e) ==
    /\ frames[t] # <<>>
    /\ LET f == Last(frames[t])
           S == wrapper_exit(Cur, t, f, kind, v, e)
       IN  /\ Commit(S)
           /\ last' = Call("exit", t, f.rep, S, [kind |-> kind, val |-> v, err |-> e])
    /\ frames' = [frames EXCEPT ![t] = SubSeq(@, 1, Len(@) - 1)]
    /\ UNCHANGED <<nm, client, util>>

Return(t) ==
    \E v \in Values \cup {0} :
        /\ frames[t] # <<>>
        /\ (v = 0) <=> (Last(frames[t]).form = "step_context")
        /\ Exit(t, "return", v, None)

Raise(t) ==
    \E e \in {x \in Errors : IsException(x)} : Exit(t, "raise", 0, e)

\* the work raises an exception of a class that does not derive from
\* Exception; nothing in the wrapped work handles it, so it leaves every
\* activation of the thread
Abort(t) ==
    \E e \in {x \in Errors : ~IsException(x)} :
        /\ frames[t] # <<>>
        /\ LET S == Unwind(Cur, t, frames[t], e) IN
              /\ Commit(S)
              /\ last' = Call("abort", t, Last(frames[t]).rep, S,
                              [kind |-> "raise", val |-> 0, err |-> e])
        /\ frames' = [frames EXCEPT ![t] = <<>>]
        /\ UNCHANGED <<nm, client, util>>

\* the reporter and its scope registry: one reporter, two threads
Next ==
    \/ StartInstance("R1")
    \/ EndInstance("R1")
    \/ \E t \in Threads :
          \/ StartSuite(t, "R1")
          \/ StartCase(t, "R1")
          \/ StartCaseHook(t, "R1")
          \/ EndCaseHook(t, "R1")
          \/ StartStep(t, "R1")
          \/ EndStep(t, "R1")

\* the run lifecycle of two reporters, driven from the constructing thread
NextRun ==
    \/ \E r \in Reporters :
          \/ StartInstance(r)
          \/ EndInstance(r)
    \/ \E r \in Reporters :
          \/ StartSuite(init_thread(r), r)
          \/ StartCase(init_thread(r), r)

SpecRun == Init /\ [][NextRun]_vars

Spec == Init /\ [][Next]_vars

\* the instrumentation wrappers on top of one reporter: the host starts the
\* run once and starts suites and cases on the main thread; both threads run
\* instrumented work
NextStep ==
    \/ ~result["R1"].started /\ StartInstance("R1")
    \/ EndInstance("R1")
    \/ StartSuite("T1", "R1")
    \/ StartCase("T1", "R1")
    \/ \E t \in Threads :
          \/ StartStep(t, "R1")
          \/ EndStep(t, "R1")
          \/ \E form \in Forms : Enter(t, form)
          \/ Return(t)
          \/ Raise(t)
          \/ Abort(t)

SpecStep == Init /\ [][NextStep]_vars

(***************************************************************************)
(* Step-name templating (cb.py, _resolve_step_name and the named           *)
(* decorator's wrapper).  A template is a sequence of tokens:              *)
(*   "lit"    literal text without braces                                  *)
(*   "{a}"    "{b}"   a placeholder naming a parameter                     *)
(*   "{0}"    a positional placeholder                                     *)
(*   "{a.x}"  a placeholder reading attribute x of parameter a             *)
(*   "{"      a single brace (malformed placeholder)                       *)
(* The call is described by: bound (inspect.signature(func).bind accepts   *)
(* the call arguments), args (the parameter names bound.arguments holds),  *)
(* attrs (the parameters whose value has attribute x).                     *)
(***************************************************************************)
Tokens == {"lit", "{a}", "{b}", "{0}", "{a.x}", "{"}

Params == {"a", "b"}

Templates == UNION {[1..n -> Tokens] : n \in 1..MaxTpl}

\* str.format(**arguments) on one token: the text produced, or the class of
\* the exception raised
FormatToken(tok, args, attrs) ==
    IF tok = "lit" THEN [exc |-> None, text |-> "lit"]
    ELSE IF tok = "{a}" THEN
        IF "a" \in args THEN [exc |-> None, text |-> "<a>"]
        ELSE [exc |-> "KeyError", text |-> ""]
    ELSE IF tok = "{b}" THEN
        IF "b" \in args THEN [exc |-> None, text |-> "<b>"]
        ELSE [exc |-> "KeyError", text |-> ""]
    ELSE IF tok = "{0}" THEN [exc |-> "IndexError", text |-> ""]
    ELSE IF tok = "{a.x}" THEN
        IF "a" \notin args THEN [exc |-> "KeyError", text |-> ""]
        ELSE IF "a" \in attrs THEN [exc |-> None, text |-> "<a.x>"]
        ELSE [exc |-> "AttributeError", text |-> ""]
    ELSE [exc |-> "ValueError", text |-> ""]

\* str.format over the template, left to right: the first failing token
\* raises
RECURSIVE Format(_, _, _)
Format(tpl, args, attrs) ==
    IF tpl = <<>> THEN [exc |-> None, text |-> <<>>]
    ELSE LET h == FormatToken(tpl[1], args, attrs) IN
         IF h.exc # None THEN [exc |-> h.exc, text |-> <<>>]
         ELSE LET r == Format(SubSeq(tpl, 2, Len(tpl)), args, attrs) IN
              IF r.exc # None THEN r
              ELSE [exc |-> None, text |-> <<h.text>> \o r.text]

\* '{' in name_template
HasBrace(tpl) == \E i \in 1..Len(tpl) : tpl[i] # "lit"

\* the exception classes the except clause of _resolve_step_name handles
ResolveHandles(x) == x \in {"TypeError", "KeyError", "IndexError"}

\* _resolve_step_name: the name (exc "None"), or the exception that leaves it
resolve_step_name(tpl, bound, args, attrs) ==
    IF ~HasBrace(tpl) THEN [exc |-> None, name |-> tpl]
    ELSE LET r == IF bound THEN Format(tpl, args, attrs)
                  ELSE [exc |-> "TypeError", text |-> <<>>]
         IN  IF r.exc = None THEN [exc |-> None, name |-> r.text]
             ELSE IF ResolveHandles(r.exc) THEN [exc |-> None, name |-> tpl]
             ELSE [exc |-> r.exc, name |-> <<>>]

\* a function wrapped by cb.step(template) is called; the result tree plays
\* no part in the resolution of the name
InitName ==
    /\ InitTree
    /\ nm \in {[pc |-> "call", tpl |-> tpl, bound |-> b, args |-> a, attrs |-> x,
                name |-> <<>>, exc |-> None, invoked |-> FALSE] :
                  tpl \in Templates, b \in BOOLEAN, a \in SUBSET Params,
                  x \in SUBSET {"a"}}
    /\ nm.attrs \subseteq nm.args
    /\ net = "ok" /\ rt = NoPush /\ poll = NoPoll /\ cerr = NoErr
    /\ v1 = Idle /\ fx = Idle /\ js = Idle

\* the wrapper resolves the step name; an exception leaves the wrapper
NameResolve ==
    /\ nm.pc = "call"
    /\ LET r == resolve_step_name(nm.tpl, nm.bound, nm.args, nm.attrs) IN
          nm' = [nm EXCEPT !.pc = IF r.exc = None THEN "named" ELSE "raised",
                           !.name = r.name, !.exc = r.exc]
    /\ UNCHANGED <<instance, result, suitesH, casesH, stepsH, ctx, frames, pushes, last, client, util>>

\* the wrapper starts the step under the resolved name and calls the function
NameInvoke ==
    /\ nm.pc = "named"
    /\ nm' = [nm EXCEPT !.pc = "done", !.invoked = TRUE]
    /\ UNCHANGED <<instance, result, suitesH, casesH, stepsH, ctx, frames, pushes, last, client, util>>

NextName == NameResolve \/ NameInvoke

SpecName == InitName /\ [][NextName]_vars

\* the reporting backend changes what it does with the requests it is sent
\* (it goes down, rejects the credential, comes back)
BackendChange ==
    /\ \E n \in Backend \ {net} : net' = n
    /\ last' = Call("backend", "T1", None, Cur, NoWork)
    /\ UNCHANGED <<instance, result, suitesH, casesH, stepsH, ctx, frames, pushes,
                   nm, rt, poll, cerr, util>>

\* the suites and cases of one run reported to a backend that may fail at
\* any time: the host starts and ends the suites on the main thread, cases
\* are started and ended on both threads
NextCase ==
    \/ ~result["R1"].started /\ StartInstance("R1")
    \/ BackendChange
    \/ StartSuite("T1", "R1")
    \/ EndSuite("T1", "R1")
    \/ \E t \in Threads :
          \/ StartCase(t, "R1")
          \/ EndCase(t, "R1")

SpecCase == Init /\ [][NextCase]_vars

(***************************************************************************)
(* The status-push calls of RuntimeApiV2 on their own (SpecPush): a caller *)
(* makes up to MaxPushes calls; for each the payload may fail to build and *)
(* the backend may do any of Backend.                                      *)
(***************************************************************************)
\* the method named call, applied
push_call(call, perr, n) ==
    IF call = "add_instance_result" THEN RuntimeApiV2_add_instance_result(perr, n)
    ELSE IF call = "update_instance_status" THEN RuntimeApiV2_update_instance_status(perr, n)
    ELSE IF call = "update_case_status" THEN RuntimeApiV2_update_case_status(perr, n)
    ELSE RuntimeApiV2_update_suite_status(perr, n)

\* a status-push method is called
PushBegin ==
    /\ rt.pc \in {"idle", "done"}
    /\ rt.n < MaxPushes
    /\ \E call \in PushCalls, perr \in PayloadErrors, n \in Backend :
          rt' = [rt EXCEPT !.pc = "call", !.call = call, !.perr = perr, !.net = n,
                           !.exc = None, !.posted = FALSE, !.logged = FALSE,
                           !.n = @ + 1]
    /\ UNCHANGED <<instance, result, suitesH, casesH, stepsH, ctx, frames, pushes,
                   last, nm, net, poll, cerr, util>>

\* the method runs to its end: it returns, or an exception leaves it
PushRun ==
    /\ rt.pc = "call"
    /\ LET res == push_call(rt.call, rt.perr, rt.net) IN
          rt' = [rt EXCEPT !.pc = "done", !.exc = res.exc, !.posted = res.posted,
                           !.logged = res.logged,
                           !.nlog = @ + (IF res.logged THEN 1 ELSE 0)]
    /\ UNCHANGED <<instance, result, suitesH, casesH, stepsH, ctx, frames, pushes,
                   last, nm, net, poll, cerr, util>>

NextPush == PushBegin \/ PushRun

SpecPush == Init /\ [][NextPush]_vars

(***************************************************************************)
(* ResultApiV1.get_result_by_run_id (client.py): result polling.           *)
(* What the backend does with one GET:                                     *)
(*   "202"       the result is not ready                                   *)
(*   "200"       the result, a non-empty JSON body (the value "data")      *)
(*   "200empty"  HTTP 200 with an empty JSON value (null, {}, [])          *)
(*   "200bad"    HTTP 200 with a body that is not JSON                     *)
(*   "404"       no such run                                               *)
(*   "500"       a status raise_for_status raises for                      *)
(*   "ConnectionError"  requests raises                                    *)
(* The call in progress: i, the iterations of the for loop completed;      *)
(* delay, the local variable, in seconds; gets, the GET requests issued;   *)
(* log, per request the response and the sleeps that followed it; ret,     *)
(* the value returned ("None": None); exc, the exception raised.           *)
(***************************************************************************)
RESULT_POLLING_RETRIES == 10

RESULT_POLLING_INTERVAL_INCREASE == 1

Responses == {"202", "200", "200empty", "200bad", "404", "500", "ConnectionError"}

\* poll_next with one iteration more than RESULT_POLLING_RETRIES
poll_next_extra(P) ==
    IF P.i + 1 > RESULT_POLLING_RETRIES
    THEN [P EXCEPT !.i = @ + 1, !.pc = "done", !.ret = None]
    ELSE [P EXCEPT !.i = @ + 1]

\* the end of an iteration that did not leave the loop: the loop ends after
\* RESULT_POLLING_RETRIES iterations and the function returns None
poll_next(P) ==
    IF P.i + 1 >= RESULT_POLLING_RETRIES
    THEN [P EXCEPT !.i = @ + 1, !.pc = "done", !.ret = None]
    ELSE [P EXCEPT !.i = @ + 1]

\* poll_sleep with the delay doubled after each sleep (exponential backoff)
poll_sleep_exponential(P) ==
    [P EXCEPT !.log[Len(P.log)].waits = Append(@, P.delay),
              !.delay = @ * 2]

\* time.sleep(delay); delay += _RESULT_POLLING_INTERVAL_INCREASE
poll_sleep(P) ==
    [P EXCEPT !.log[Len(P.log)].waits = Append(@, P.delay),
              !.delay = @ + RESULT_POLLING_INTERVAL_INCREASE]

\* poll_attempt giving up at the first 202
poll_attempt_giveup(P, resp) ==
    LET P1 == [P EXCEPT !.gets = @ + 1,
                        !.log = Append(@, [resp |-> resp, waits |-> <<>>])]
    IN  IF resp \in {"ConnectionError", "500", "200bad"}
        THEN [P1 EXCEPT !.pc = "done", !.exc = "CbApiError"]
        ELSE IF resp \in {"404", "202"} THEN [P1 EXCEPT !.pc = "done", !.ret = None]
        ELSE IF resp = "200" THEN [P1 EXCEPT !.pc = "done", !.ret = "data"]
        ELSE poll_next(poll_sleep(P1))

\* poll_attempt retrying after a 404 as after a 202
poll_attempt_retry404(P, resp) ==
    LET P1 == [P EXCEPT !.gets = @ + 1,
                        !.log = Append(@, [resp |-> resp, waits |-> <<>>])]
    IN  IF resp \in {"ConnectionError", "500", "200bad"}
        THEN [P1 EXCEPT !.pc = "done", !.exc = "CbApiError"]
        ELSE IF resp \in {"404", "202"} THEN poll_next(poll_sleep(P1))
        ELSE IF resp = "200" THEN [P1 EXCEPT !.pc = "done", !.ret = "data"]
        ELSE poll_next(poll_sleep(P1))

\* one iteration of the for loop: the GET and what follows from the response
\*   transport failure, error status, unparsable body: CbApiError is raised
\*   404: return None
\*   202: sleep, continue
\*   200 with data: return data;  200 with an empty value: sleep, next iteration
poll_attempt(P, resp) ==
    LET P1 == [P EXCEPT !.gets = @ + 1,
                        !.log = Append(@, [resp |-> resp, waits |-> <<>>])]
    IN  IF resp \in {"ConnectionError", "500", "200bad"}
        THEN [P1 EXCEPT !.pc = "done", !.exc = "CbApiError"]
        ELSE IF resp = "404" THEN [P1 EXCEPT !.pc = "done", !.ret = None]
        ELSE IF resp = "202" THEN poll_next(poll_sleep(P1))
        ELSE IF resp = "200" THEN [P1 EXCEPT !.pc = "done", !.ret = "data"]
        ELSE poll_next(poll_sleep(P1))

\* get_result_by_run_id is called: delay = 1.0, the loop begins
PollCall ==
    /\ poll.pc = "idle"
    /\ poll' = [poll EXCEPT !.pc = "loop", !.delay = 1]
    /\ UNCHANGED <<instance, result, suitesH, casesH, stepsH, ctx, frames, pushes,
                   last, nm, net, rt, cerr, util>>

\* the next iteration of the loop, the backend answering resp
PollAttempt ==
    /\ poll.pc = "loop"
    /\ \E resp \in Responses : poll' = poll_attempt(poll, resp)
    /\ UNCHANGED <<instance, result, suitesH, casesH, stepsH, ctx, frames, pushes,
                   last, nm, net, rt, cerr, util>>

NextPoll == PollCall \/ PollAttempt

SpecPoll == Init /\ [][NextPoll]_vars

(***************************************************************************)
(* CbApiError.__init__ (client.py): the message of the error.  A message   *)
(* is a sequence of pieces of text (their concatenation is the string).    *)
(* The response: status, reason (the reason phrase, "" when the transport  *)
(* supplies none) and the body:                                            *)
(*   kind  "notjson" (response.json() raises), "null", "array", "object"   *)
(*   em    the value of errorMessage ("" when absent or empty)             *)
(*   errs  the entries of errors (<<>> when absent, null or empty)         *)
(*   strs  whether the entries of errors are strings                       *)
(***************************************************************************)
Statuses == {204, 400, 401, 404, 422, 500, 503}

Reasons == {"", "Service Unavailable"}

Bodies ==
    {[kind |-> k, em |-> "", errs |-> <<>>, strs |-> TRUE] : k \in {"notjson", "null", "array"}}
    \cup {[kind |-> "object", em |-> m, errs |-> e, strs |-> b] :
              m \in {"", "bad input"},
              e \in {<<>>, <<"field required">>, <<"field required", "too long">>},
              b \in BOOLEAN}

\* sep.join(xs)
RECURSIVE Join(_, _)
Join(xs, sep) ==
    IF xs = <<>> THEN <<>>
    ELSE IF Len(xs) = 1 THEN xs
    ELSE <<xs[1], sep>> \o Join(Tail(xs), sep)

\* str(status)
StatusText(status) == <<ToString(status)>>

\* the 422 branch: a validation-error body; any exception (unparsable body,
\* a body that is no object, entries that cannot be joined) gives the
\* generic message
validation_message(body) ==
    IF body.kind = "notjson" \/ body.kind = "array" THEN <<"Validation Failed">>
    ELSE IF body.kind = "null" \/ body.em = "" THEN <<"Validation Failed">>
    ELSE IF body.errs = <<>> THEN <<body.em>>
    ELSE IF ~body.strs THEN <<"Validation Failed">>
    ELSE <<body.em, ": ">> \o Join(body.errs, " ")

\* CbApiError_init joining the field errors with ", "
CbApiError_init_comma(given, response, status, reason, body) ==
    IF ~response THEN <<given>>
    ELSE IF status = 500 THEN <<"Internal server error, please try again later.">>
    ELSE IF status = 401 THEN <<"Authentication failed, invalid API key.">>
    ELSE IF status = 404 THEN <<"A record or an endpoint does not exist.">>
    ELSE IF status = 204 THEN <<"A record or an endpoint does not have content.">>
    ELSE IF status = 422 THEN
        (IF validation_message(body) = <<"Validation Failed">> \/ body.errs = <<>>
         THEN validation_message(body)
         ELSE <<body.em, ": ">> \o Join(body.errs, ", "))
    ELSE IF reason # "" THEN <<reason>> ELSE StatusText(status)

\* CbApiError.__init__(message_or_exc, response): the message handed to
\* Exception.__init__ (response FALSE: no response was given)
CbApiError_init(given, response, status, reason, body) ==
    IF ~response THEN <<given>>
    ELSE IF status = 500 THEN <<"Internal server error, please try again later.">>
    ELSE IF status = 401 THEN <<"Authentication failed, invalid API key.">>
    ELSE IF status = 404 THEN <<"A record or an endpoint does not exist.">>
    ELSE IF status = 204 THEN <<"A record or an endpoint does not have content.">>
    ELSE IF status = 422 THEN validation_message(body)
    ELSE IF reason # "" THEN <<reason>> ELSE StatusText(status)

\* a CbApiError is about to be built, from a message alone or from a message
\* and a response
InitErr ==
    /\ InitTree /\ nm = NoName
    /\ net = "ok" /\ rt = NoPush /\ poll = NoPoll
    /\ cerr \in {[pc |-> "new", response |-> r, status |-> st, reason |-> rs,
                   body |-> b, given |-> g, msg |-> <<>>] :
                     r \in BOOLEAN, st \in Statuses, rs \in Reasons, b \in Bodies,
                     g \in {"", "boom"}}
    /\ cerr.response \/ (cerr.status = 503 /\ cerr.reason = "" /\ cerr.body.kind = "null")
    /\ v1 = Idle /\ fx = Idle /\ js = Idle

ErrBuild ==
    /\ cerr.pc = "new"
    /\ cerr' = [cerr EXCEPT !.pc = "built",
                             !.msg = CbApiError_init(cerr.given, cerr.response, cerr.status,
                                                     cerr.reason, cerr.body)]
    /\ UNCHANGED <<instance, result, suitesH, casesH, stepsH, ctx, frames, pushes,
                   last, nm, net, rt, poll, util>>

NextErr == ErrBuild

SpecErr == InitErr /\ [][NextErr]_vars

(***************************************************************************)
(* RuntimeApiV1 (client.py): the calls whose failures are surfaced to the  *)
(* caller.  A request ends in a transport failure (requests raises exc) or *)
(* in a response: status, reason phrase and body.  The body extends the    *)
(* records of Bodies by                                                    *)
(*   id     the JSON object holds a non-empty "id"                         *)
(*   falsy  the JSON value is falsy in Python (null, {}, [])               *)
(* kind "array" stands for every JSON value that is no object.             *)
(* The outcome of a call: ret, the value returned ("None": None); exc, the *)
(* class of the exception raised; msg, its message; logged, whether        *)
(* logger.error was called.                                                *)
(***************************************************************************)
V1Calls == {"run_test_case", "run_test_suite", "run_monitor", "get_run_status"}

V1Bodies ==
    {[kind |-> "notjson", em |-> "", errs |-> <<>>, strs |-> TRUE, id |-> FALSE, falsy |-> FALSE],
     [kind |-> "null",    em |-> "", errs |-> <<>>, strs |-> TRUE, id |-> FALSE, falsy |-> TRUE],
     [kind |-> "array",   em |-> "", errs |-> <<>>, strs |-> TRUE, id |-> FALSE, falsy |-> TRUE],
     [kind |-> "array",   em |-> "", errs |-> <<>>, strs |-> TRUE, id |-> FALSE, falsy |-> FALSE],
     [kind |-> "object",  em |-> "", errs |-> <<>>, strs |-> TRUE, id |-> FALSE, falsy |-> TRUE],
     [kind |-> "object",  em |-> "", errs |-> <<>>, strs |-> TRUE, id |-> TRUE,  falsy |-> FALSE],
     [kind |-> "object",  em |-> "bad input", errs |-> <<"field required">>, strs |-> TRUE,
      id |-> FALSE, falsy |-> FALSE]}

V1Responses ==
    {[exc |-> x, status |-> 0, reason |-> "", body |-> b] :
         x \in {"ConnectionError", "Timeout"}, b \in {bb \in V1Bodies : bb.kind = "null"}}
    \cup {[exc |-> None, status |-> st, reason |-> rs, body |-> b] :
              st \in {200, 204, 401, 404, 422, 500, 503}, rs \in Reasons, b \in V1Bodies}

\* str(exc): the text of an exception of class x (the text of a transport
\* failure is named after its class)
str_exc(x) ==
    IF x = "JSONDecodeError" THEN "Expecting value: line 1 column 1 (char 0)"
    ELSE IF x = "AttributeError" THEN "'list' object has no attribute 'get'"
    ELSE x

\* requests.Response.raise_for_status raises HTTPError for the statuses
\* 400..599 and for no other
raise_for_status(status) == status >= 400 /\ status < 600

\* raise CbApiError(message): no response is given
v1_error(text, lg) ==
    [ret |-> None, exc |-> "CbApiError", logged |-> lg,
     msg |-> CbApiError_init(text, FALSE, 0, "",
                             [kind |-> "null", em |-> "", errs |-> <<>>, strs |-> TRUE])]

\* except requests.HTTPError as exc: raise CbApiError(exc, response=exc.response)
v1_http_error(resp) ==
    [ret |-> None, exc |-> "CbApiError", logged |-> FALSE,
     msg |-> CbApiError_init(str_exc("HTTPError"), TRUE, resp.status, resp.reason, resp.body)]

\* RuntimeApiV1.run_test_case / run_test_suite / run_monitor (the three
\* bodies differ in the path and the logged name only)
run_trigger(resp) ==
    IF resp.exc # None THEN v1_error(str_exc(resp.exc), TRUE)
    ELSE IF resp.status = 404
    THEN [ret |-> None, exc |-> None, logged |-> FALSE, msg |-> <<>>]
    ELSE IF raise_for_status(resp.status) THEN v1_http_error(resp)
    ELSE IF resp.body.kind = "notjson" THEN v1_error(str_exc("JSONDecodeError"), TRUE)
    ELSE IF resp.body.falsy THEN v1_error("Invalid response, \"data.id\" is missing.", FALSE)
    ELSE IF resp.body.kind # "object" THEN v1_error(str_exc("AttributeError"), TRUE)
    ELSE IF ~resp.body.id THEN v1_error("Invalid response, \"data.id\" is missing.", FALSE)
    ELSE [ret |-> "id", exc |-> None, logged |-> FALSE, msg |-> <<>>]

\* RuntimeApiV1.get_run_status
get_run_status(resp) ==
    IF resp.exc # None THEN v1_error(str_exc(resp.exc), TRUE)
    ELSE IF raise_for_status(resp.status) THEN v1_http_error(resp)
    ELSE IF resp.body.kind = "notjson" THEN v1_error(str_exc("JSONDecodeError"), TRUE)
    ELSE IF resp.body.falsy THEN v1_error("Invalid response, no data received.", FALSE)
    ELSE IF resp.body.kind # "object" THEN v1_error(str_exc("AttributeError"), TRUE)
    ELSE [ret |-> "RunStatus", exc |-> None, logged |-> FALSE, msg |-> <<>>]

\* one of the V1 calls is made; one client call is in progress at a time
V1Call ==
    /\ v1.pc = "idle" /\ poll.pc = "idle"
    /\ \E call \in V1Calls, resp \in V1Responses :
          v1' = [pc |-> "call", call |-> call, resp |-> resp]
    /\ UNCHANGED <<instance, result, suitesH, casesH, stepsH, ctx, frames, pushes,
                   last, nm, client, fx, js, tc, lsn>>

\* the call runs to its end
V1Run ==
    /\ v1.pc = "call"
    /\ LET res == IF v1.call = "get_run_status" THEN get_run_status(v1.resp)
                  ELSE run_trigger(v1.resp)
       IN  v1' = [pc |-> "done", call |-> v1.call, resp |-> v1.resp, ret |-> res.ret,
                  exc |-> res.exc, msg |-> res.msg, logged |-> res.logged]
    /\ UNCHANGED <<instance, result, suitesH, casesH, stepsH, ctx, frames, pushes,
                   last, nm, client, fx, js, tc, lsn>>

\* the triggering, query and result calls of the V1 API, one call at a time
NextV1 == V1Call \/ V1Run \/ (v1.pc = "idle" /\ PollCall) \/ PollAttempt

SpecV1 == Init /\ [][NextV1]_vars

(***************************************************************************)
(* helpers.get_failure_from_exception and _clean_exception_message on      *)
(* their own (SpecFail).  The text of an exception is a sequence of        *)
(* pieces: the literals "Message:" and "Stacktrace:", " " (a run of        *)
(* whitespace) and a run of other text without whitespace at its ends.     *)
(* The traceback of the exception (exception.__traceback__) is the         *)
(* sequence of its entries in tb_next order: the first is the frame that   *)
(* caught the exception, the last is the frame that raised it; the empty   *)
(* sequence is the None of an exception that was never raised.  An entry   *)
(* is the file name of its code (pieces of text) and its line.             *)
(***************************************************************************)
MaxMsg == 5

MaxTb == 3

Texts ==
    UNION {[1..n -> {"Message:", "Stacktrace:", " ", "element not clickable"}] :
               n \in 0..MaxMsg}

\* str.strip
Strip(s) ==
    LET nz == {i \in 1..Len(s) : s[i] # " "} IN
    IF nz = {} THEN <<>>
    ELSE SubSeq(s, CHOOSE i \in nz : \A j \in nz : i <= j,
                   CHOOSE i \in nz : \A j \in nz : i >= j)

\* _clean_exception_message cutting at the last "Stacktrace:" marker (rfind)
clean_exception_message_rfind(message) ==
    IF message = <<>> THEN [absent |-> TRUE, text |-> <<>>]
    ELSE LET at  == {i \in 1..Len(message) : message[i] = "Stacktrace:"}
             cut == IF at = {} THEN message
                    ELSE SubSeq(message, 1, (CHOOSE i \in at : \A j \in at : i >= j) - 1)
             m1  == Strip(cut)
             m2  == IF StartsWith(m1, <<"Message:">>) THEN Strip(Tail(m1)) ELSE m1
         IN  [absent |-> m2 = <<>>, text |-> m2]

\* _clean_exception_message: the cleaned message, or absent (None)
clean_exception_message(message) ==
    IF message = <<>> THEN [absent |-> TRUE, text |-> <<>>]
    ELSE LET at  == {i \in 1..Len(message) : message[i] = "Stacktrace:"}
             cut == IF at = {} THEN message
                    ELSE SubSeq(message, 1, (CHOOSE i \in at : \A j \in at : i <= j) - 1)
             m1  == Strip(cut)
             m2  == IF StartsWith(m1, <<"Message:">>) THEN Strip(Tail(m1)) ELSE m1
         IN  [absent |-> m2 = <<>>, text |-> m2]

\* the tracebacks an exception may carry: frames of two files of the test
\* code, of an installed library and of code compiled from a string
Tracebacks ==
    LET Files == {<<"tests/", "test_login.py">>, <<"pages/", "login.py">>,
                  <<"venv/lib/", "site-packages", "/selenium/webdriver.py">>,
                  <<"<", "string>">>}
        Entries == {[file |-> f, line |-> l] : f \in Files, l \in {11, 12}}
    IN  UNION {[1..n -> Entries] : n \in 0..MaxTb}

\* the walk keeping the first qualifying entry instead of the last
failure_location_first(tb, location) ==
    IF tb = <<>> THEN location
    ELSE LET q == {i \in 1..Len(tb) : /\ ~Contains(tb[i].file, "site-packages")
                                      /\ ~StartsWith(tb[i].file, <<"<">>)}
         IN  IF q = {} THEN location
             ELSE LET i == CHOOSE j \in q : \A k \in q : j <= k IN
                  tb[i].file \o <<":", ToString(tb[i].line)>>

\* the while loop over the traceback (tb, then tb_next ...): every entry
\* whose file name does not contain 'site-packages' and does not start with
\* '<' overwrites failure.location with f"{filename}:{lineno}"; location is
\* the value so far (<<>>: unset, None)
RECURSIVE failure_location(_, _)
failure_location(tb, location) ==
    IF tb = <<>> THEN location
    ELSE failure_location(
             Tail(tb),
             IF /\ ~Contains(Head(tb).file, "site-packages")
                /\ ~StartsWith(Head(tb).file, <<"<">>)
             THEN Head(tb).file \o <<":", ToString(Head(tb).line)>>
             ELSE location)

\* get_failure_from_exception(exception): None, or the FailureResult
FailureResult(e, text, tb) ==
    IF e = None
    THEN [ret |-> None, type |-> None, sub_type |-> <<>>, is_fatal |-> FALSE,
          message |-> [absent |-> TRUE, text |-> <<>>], location |-> <<>>]
    ELSE [ret |-> "FailureResult", type |-> get_failure_from_exception(e),
          sub_type |-> ExcClasses[e].name, is_fatal |-> TRUE,
          message |-> clean_exception_message(text),
          location |-> failure_location(tb, <<>>)]

\* an exception (or None) is about to be turned into a failure
InitFail ==
    /\ InitTree /\ nm = NoName
    /\ net = "ok" /\ rt = NoPush /\ poll = NoPoll /\ cerr = NoErr
    /\ v1 = Idle /\ js = Idle
    \* the text and the traceback are treated apart: one of them is varied
    /\ fx \in {[pc |-> "raised", exc |-> e, text |-> m, tb |-> <<>>] :
                  e \in DOMAIN ExcClasses \cup {None}, m \in Texts}
             \cup {[pc |-> "raised", exc |-> e, text |-> <<>>, tb |-> tb] :
                      e \in DOMAIN ExcClasses, tb \in Tracebacks}
    /\ fx.exc = None => fx.text = <<>>

FailDerive ==
    /\ fx.pc = "raised"
    /\ fx' = [pc |-> "done", exc |-> fx.exc, text |-> fx.text, tb |-> fx.tb,
              failure |-> FailureResult(fx.exc, fx.text, fx.tb)]
    /\ UNCHANGED <<instance, result, suitesH, casesH, stepsH, ctx, frames, pushes,
                   last, nm, client, v1, js, tc, lsn>>

SpecFail == InitFail /\ [][FailDerive]_vars

(***************************************************************************)
(* json_util.to_json and the request bodies of RuntimeApiV2 (SpecJson).    *)
(* A Python value is a record:                                             *)
(*   cls      its class                                                    *)
(*   absent   the attributes (keys, for a dict) whose value is None        *)
(*   failure  the class of the value of its failure attribute              *)
(*   kids     the values in its list of children (suites, cases, steps)    *)
(* A JSON value is a record: t ("null", "str", "obj"), f (key -> "val" or  *)
(* "null", the members with plain values), failure (the member "failure",  *)
(* a sequence of at most one JSON value) and kids (the member holding the  *)
(* list of children).  The hooks of a case are projected as its steps are. *)
(***************************************************************************)
MaxKids == 2

\* the members with plain values, per class: JSON key -> attribute
JsonKeys ==
    [TestResult |->
        [runId |-> "run_id", instanceId |-> "instance_id", startTime |-> "start_time",
         endTime |-> "end_time", duration |-> "duration", capabilities |-> "capabilities",
         options |-> "options", metaData |-> "meta_data",
         environmentVariables |-> "environment_variables",
         testAttributes |-> "test_attributes"],
     SuiteResult |->
        [id |-> "id", name |-> "name", fqn |-> "fqn", startTime |-> "start_time",
         endTime |-> "end_time", duration |-> "duration", status |-> "status"],
     CaseResult |->
        [id |-> "id", name |-> "name", display_name |-> "display_name",
         description |-> "description", fqn |-> "fqn", startTime |-> "start_time",
         endTime |-> "end_time", duration |-> "duration", status |-> "status",
         context |-> "context", arguments |-> "arguments"],
     StepResult |->
        [id |-> "id", name |-> "name", fqn |-> "fqn", startTime |-> "start_time",
         endTime |-> "end_time", duration |-> "duration", status |-> "status",
         screenShot |-> "screenshot"],
     FailureResult |->
        [type |-> "type", sub_type |-> "sub_type", message |-> "message",
         stacktrace |-> "stacktrace", location |-> "location", is_fatal |-> "is_fatal"],
     RunStatusInfo |->
        [runId |-> "run_id", instanceId |-> "instance_id", status |-> "status",
         progress |-> "progress"],
     CaseStatusUpdateReq |->
        [runId |-> "run_id", instanceId |-> "instance_id", id |-> "id", fqn |-> "fqn",
         parentFqn |-> "parent_fqn", parentId |-> "parent_id", name |-> "name",
         startTime |-> "start_time", endTime |-> "end_time", runStatus |-> "run_status",
         testStatus |-> "test_status", framework |-> "framework", language |-> "language",
         capabilities |-> "capabilities", timestamp |-> "timestamp"],
     SuiteStatusUpdateReq |->
        [runId |-> "run_id", instanceId |-> "instance_id", suiteId |-> "suite_id",
         status |-> "status", progress |-> "progress"],
     dict |-> [runId |-> "runId", endTime |-> "endTime"]]

\* the class expected in the list of children of an entity
ChildClass(cls) ==
    IF cls = "TestResult" THEN "SuiteResult"
    ELSE IF cls = "SuiteResult" THEN "CaseResult"
    ELSE "StepResult"

\* the values handed to to_json and to the status-push calls: result trees
\* with values of other types in the places of entities, and requests with
\* any of their attributes unset
PyValues ==
    LET Leaf(c)     == [cls |-> c, absent |-> {}, failure |-> "NoneType", kids |-> <<>>]
        UpTo(S, n)  == UNION {[1..k -> S] : k \in 0..n}
        Steps       == {[cls |-> "StepResult", absent |-> {}, failure |-> f, kids |-> <<>>] :
                            f \in {"FailureResult", "NoneType"}} \cup {Leaf("str")}
        Cases       == {[cls |-> "CaseResult", absent |-> {}, failure |-> f, kids |-> k] :
                            f \in {"FailureResult", "NoneType", "str"}, k \in UpTo(Steps, 1)}
                       \cup {Leaf("NoneType")}
        Suites      == {[cls |-> "SuiteResult", absent |-> a, failure |-> "NoneType",
                         kids |-> k] : a \in {{}, {"fqn"}}, k \in UpTo(Cases, 1)}
                       \cup {Leaf("dict"), Leaf("CaseResult")}
    IN  [results  |-> {[cls |-> "TestResult", absent |-> a, failure |-> "NoneType",
                        kids |-> k] : a \in {{}, {"end_time"}}, k \in UpTo(Suites, MaxKids)}
                      \cup {Leaf(c) : c \in {"NoneType", "str", "object", "SuiteResult"}}
                      \cup {[Leaf("dict") EXCEPT !.absent = a] : a \in SUBSET {"endTime"}},
         requests |-> {[cls |-> c, absent |-> a, failure |-> "NoneType", kids |-> <<>>] :
                          c \in {"RunStatusInfo", "SuiteStatusUpdateReq"},
                          a \in SUBSET {"run_id", "instance_id", "status", "progress"}}
                      \cup {[cls |-> "CaseStatusUpdateReq", absent |-> a,
                             failure |-> "NoneType", kids |-> <<>>] :
                               a \in SUBSET {"id", "fqn", "parent_fqn", "end_time",
                                             "test_status", "capabilities"}}]

\* JSON null
JNull == [t |-> "null", f |-> [k \in {} |-> "val"], failure |-> <<>>, kids |-> <<>>]

\* the members of a JSON object built with every key of the class:
\* "key": v.attribute, null when the attribute is None
Members(v) ==
    [k \in DOMAIN JsonKeys[v.cls] |->
        IF JsonKeys[v.cls][k] \in v.absent THEN "null" ELSE "val"]

\* _test_result_to_json, _suite_result_to_json, _case_result_to_json,
\* _step_result_to_json, _failure_result_to_json: None for a value that is
\* no instance of the class, otherwise the dict with every key
RECURSIVE entity_to_json(_, _)
entity_to_json(v, cls) ==
    IF v.cls # cls THEN JNull
    ELSE [t |-> "obj",
          f |-> Members(v),
          failure |-> IF cls \in {"CaseResult", "StepResult"}
                      THEN <<entity_to_json([cls |-> v.failure, absent |-> {},
                                             failure |-> "NoneType", kids |-> <<>>],
                                            "FailureResult")>>
                      ELSE <<>>,
          kids |-> [i \in 1..Len(v.kids) |-> entity_to_json(v.kids[i], ChildClass(cls))]]

\* to_json(result) = json.dumps(result, cls=CbResultEncoder): None, a str
\* and a dict are encoded as they are; any other object goes to
\* CbResultEncoder.default, which projects a TestResult and hands everything
\* else to JSONEncoder.default, which raises TypeError
to_json(v) ==
    IF v.cls = "NoneType" THEN [exc |-> None, doc |-> JNull]
    ELSE IF v.cls = "str" THEN [exc |-> None, doc |-> [JNull EXCEPT !.t = "str"]]
    ELSE IF v.cls = "dict"
    THEN [exc |-> None, doc |-> [JNull EXCEPT !.t = "obj", !.f = Members(v)]]
    ELSE IF v.cls = "TestResult" THEN [exc |-> None, doc |-> entity_to_json(v, "TestResult")]
    ELSE [exc |-> "TypeError", doc |-> JNull]

\* RunStatusInfo.to_dict, CaseStatusUpdateReq.to_dict,
\* SuiteStatusUpdateReq.to_dict: a key for each attribute that is not None
to_dict(req) ==
    [JNull EXCEPT !.t = "obj",
                  !.f = [k \in {x \in DOMAIN JsonKeys[req.cls] : Members(req)[x] # "null"} |->
                            Members(req)[k]]]

\* the payload RuntimeApiV2.add_instance_result posts: a dict as it is,
\* anything else as json.loads(to_json(result))
instance_result_payload(v) ==
    IF v.cls = "dict" THEN [exc |-> None, doc |-> [JNull EXCEPT !.t = "obj", !.f = Members(v)]]
    ELSE to_json(v)

\* a value is about to be serialized (to_json) or sent (RuntimeApiV2)
InitJson ==
    /\ InitTree /\ nm = NoName
    /\ net = "ok" /\ rt = NoPush /\ poll = NoPoll /\ cerr = NoErr
    /\ v1 = Idle /\ fx = Idle
    /\ js \in {[pc |-> "call", op |-> op, arg |-> v] :
                  op \in {"to_json", "add_instance_result"}, v \in PyValues.results}
              \cup {[pc |-> "call", op |-> "update_status", arg |-> v] :
                        v \in PyValues.requests}

\* the call runs: the document to_json returns, or the body of the request
JsonBuild ==
    /\ js.pc = "call"
    /\ LET out == IF js.op = "to_json" THEN to_json(js.arg)
                  ELSE IF js.op = "add_instance_result" THEN instance_result_payload(js.arg)
                  ELSE [exc |-> None, doc |-> to_dict(js.arg)]
       IN  js' = [pc |-> "done", op |-> js.op, arg |-> js.arg, exc |-> out.exc,
                  doc |-> out.doc]
    /\ UNCHANGED <<instance, result, suitesH, casesH, stepsH, ctx, frames, pushes,
                   last, nm, client, v1, fx, tc, lsn>>

SpecJson == InitJson /\ [][JsonBuild]_vars

(***************************************************************************)
(* ThreadContext as a mapping on its own (SpecCtx): threads assign and     *)
(* read keys of their scope, threads end and new ones start, and           *)
(* ThreadContext.cleanup runs on one thread while the others go on.  The   *)
(* registry is a defaultdict: reading the entry of a thread inserts the    *)
(* key.  The cleanup pass is a sequence of steps, one per next() of the    *)
(* dict iterator, between which other threads may run; a dict iterator     *)
(* raises RuntimeError (dictionary changed size during iteration) when the *)
(* size of the dict differs from the size at its creation.                 *)
(***************************************************************************)
\* the keys of the registry after thread t read ThreadContext.thread_context
\* with the scopes c: the key of t is inserted, and when t has to inherit
\* also the key of the initializing thread
thread_context_keys(keys, c, t, r) ==
    LET getitem(ks, u) == IF \E i \in 1..Len(ks) : ks[i] = u THEN ks ELSE Append(ks, u)
    IN  IF c[t] = <<>> /\ t # init_thread(r)
        THEN getitem(getitem(keys, t), init_thread(r))
        ELSE getitem(keys, t)

\* ThreadContext.__setitem__ called on thread t
SetItem(t, r) ==
    /\ t \in tc.alive
    /\ tc.pc = "idle" \/ tc.by # t
    /\ \E k \in {"a", "b"}, v \in {1, 2} :
          LET raises == ContextRaises(ctx, t, r) IN
          /\ ctx' = IF raises THEN ctx ELSE ContextSet(ctx, t, r, k, v)
          /\ tc' = [tc EXCEPT !.keys = thread_context_keys(@, ctx, t, r),
                              !.recent = IF ~raises /\ t = init_thread(r)
                                         THEN <<[key |-> k, val |-> v]>> ELSE @]
          /\ last' = Call("setitem", t, r,
                          [Cur EXCEPT !.exc = IF raises THEN "StopIteration" ELSE None],
                          [kind |-> k, val |-> v, err |-> None])
    /\ UNCHANGED <<instance, result, suitesH, casesH, stepsH, frames, pushes, nm,
                   client, v1, fx, js, lsn>>

\* ThreadContext.get called on thread t
GetItem(t, r) ==
    /\ t \in tc.alive
    /\ tc.pc = "idle" \/ tc.by # t
    /\ \E k \in {"a", "b"} :
          LET raises == ContextRaises(ctx, t, r) IN
          /\ ctx' = IF raises THEN ctx ELSE thread_context(ctx, t, r)
          /\ tc' = [tc EXCEPT !.keys = thread_context_keys(@, ctx, t, r)]
          /\ last' = Call("get", t, r,
                          [Cur EXCEPT !.exc = IF raises THEN "StopIteration" ELSE None,
                                      !.ret = IF raises THEN 0
                                              ELSE ContextGet(ctx, t, r, k)],
                          [kind |-> k, val |-> 0, err |-> None])
    /\ UNCHANGED <<instance, result, suitesH, casesH, stepsH, frames, pushes, nm,
                   client, v1, fx, js, lsn>>

\* a thread other than the initializing one ends (is_alive() turns false for
\* good), or a new thread starts once the registry holds no key of an ended
\* thread of that name
ThreadLife(t, r) ==
    /\ t # init_thread(r)
    /\ tc.pc = "idle" \/ tc.by # t
    /\ \/ /\ t \in tc.alive
          /\ tc' = [tc EXCEPT !.alive = @ \ {t}]
          /\ last' = Call("thread_end", t, r, Cur, NoWork)
       \/ /\ t \notin tc.alive
          /\ \A i \in 1..Len(tc.keys) : tc.keys[i] # t
          /\ tc' = [tc EXCEPT !.alive = @ \cup {t}]
          /\ last' = Call("thread_start", t, r, Cur, NoWork)
    /\ UNCHANGED <<instance, result, suitesH, casesH, stepsH, ctx, frames, pushes, nm,
                   client, v1, fx, js, lsn>>

\* cleanup with every key taken for a stopped thread
cleanup_next_all(T) ==
    IF Len(T.keys) # T.used THEN [T EXCEPT !.pc = "raised"]
    ELSE IF T.pos = Len(T.keys) THEN [T EXCEPT !.pc = "del"]
    ELSE [T EXCEPT !.pos = @ + 1,
                   !.stopped_threads = Append(@, T.keys[T.pos + 1])]

\* one next() of `for thread in self._thread_context.keys()` and the body of
\* the loop: RuntimeError when the dict changed size, the end of the loop
\* when every key was yielded, otherwise the key is appended to
\* stopped_threads if its thread is not alive
cleanup_next(T) ==
    IF Len(T.keys) # T.used THEN [T EXCEPT !.pc = "raised"]
    ELSE IF T.pos = Len(T.keys) THEN [T EXCEPT !.pc = "del"]
    ELSE [T EXCEPT !.pos = @ + 1,
                   !.stopped_threads = IF T.keys[T.pos + 1] \notin T.alive
                                       THEN Append(@, T.keys[T.pos + 1]) ELSE @]

\* ThreadContext.cleanup is called on thread t: the iterator over the keys
\* is created
CleanupCall(t) ==
    /\ t \in tc.alive
    /\ tc.pc = "idle"
    /\ tc' = [tc EXCEPT !.pc = "iter", !.by = t, !.used = Len(tc.keys), !.pos = 0,
                        !.stopped_threads = <<>>, !.dead = Threads \ tc.alive]
    /\ last' = Call("cleanup_call", t, None, Cur, NoWork)
    /\ UNCHANGED <<instance, result, suitesH, casesH, stepsH, ctx, frames, pushes, nm,
                   client, v1, fx, js, lsn>>

\* the pass goes on: the next iteration of the first loop, or, at its end,
\* the second loop deleting the keys of stopped_threads; the call ends with
\* the RuntimeError or with the deletions
CleanupStep ==
    /\ tc.pc = "iter"
    /\ LET T == cleanup_next(tc)
           gone == {T.stopped_threads[i] : i \in 1..Len(T.stopped_threads)}
           keep(u) == u \notin gone
           over == [T EXCEPT !.pc = "idle", !.by = None, !.used = 0, !.pos = 0,
                             !.stopped_threads = <<>>, !.dead = {}]
       IN  IF T.pc = "raised"
           THEN /\ tc' = over
                /\ ctx' = ctx
                /\ last' = Call("cleanup", tc.by, None, [Cur EXCEPT !.exc = "RuntimeError"],
                                [kind |-> "removed", val |-> 0, err |-> None])
           ELSE IF T.pc = "del"
           THEN /\ tc' = [over EXCEPT !.keys = SelectSeq(T.keys, keep)]
                /\ ctx' = [u \in Threads |-> IF u \in gone THEN <<>> ELSE ctx[u]]
                /\ last' = Call("cleanup", tc.by, None, Cur,
                                [kind |-> "removed", val |-> Cardinality(gone),
                                 err |-> None])
           ELSE /\ tc' = T
                /\ ctx' = ctx
                /\ last' = Call("cleanup_next", tc.by, None, Cur, NoWork)
    /\ UNCHANGED <<instance, result, suitesH, casesH, stepsH, frames, pushes, nm,
                   client, v1, fx, js, lsn>>

\* the scope registry of one tracker, constructed on the main thread
NextCtx ==
    \/ \E t \in Threads :
          \/ SetItem(t, "R1")
          \/ GetItem(t, "R1")
          \/ ThreadLife(t, "R1")
          \/ CleanupCall(t)
    \/ CleanupStep

SpecCtx == Init /\ [][NextCtx]_vars

(***************************************************************************)
(* The reporter called by hosts that keep no discipline (SpecFree): the    *)
(* main thread starts suites, starts and ends cases and starts hooks in    *)
(* any order, and both threads start and end steps whenever they like, as  *)
(* the callbacks of a browser driver and the workers of a pool do.  The    *)
(* reporter has no API client: no status update is sent.                   *)
(***************************************************************************)
\* start_step called on thread t, whatever steps are open in its case
StartStepOn(t, r) ==
    /\ LET S == start_step(Cur, t, r) IN
          Commit(S) /\ last' = Call("start_step", t, r, S, NoWork)
    /\ UNCHANGED <<frames, nm, client, util>>

\* end_step called on thread t, whatever steps are open in its case
EndStepOn(t, r) ==
    /\ \E se \in {<<None, None>>, <<FAILED, "ValueError">>} :
          LET S == end_step(Cur, t, r, se[1], se[2]) IN
             Commit(S) /\ last' = Call("end_step", t, r, S, NoWork)
    /\ UNCHANGED <<frames, nm, client, util>>

\* one reporter without an API client: no status update is sent
NextFree ==
    \/ ~result["R2"].started /\ StartInstance("R2")
    \/ StartSuite("T1", "R2")
    \/ StartCase("T1", "R2")
    \/ EndCase("T1", "R2")
    \/ StartCaseHook("T1", "R2")
    \/ \E t \in Threads :
          \/ StartStepOn(t, "R2")
          \/ EndStepOn(t, "R2")

SpecFree == Init /\ [][NextFree]_vars

(***************************************************************************)
(* CbWebDriverListener (cb-kit-selenium/src/listener.py) on top of one     *)
(* reporter (SpecListen).  The driver calls the listener on the test's     *)
(* thread.  A locator stands for a (by, value) pair.  shot is what         *)
(* driver.get_screenshot_as_base64() does: it returns "png" or "raises".   *)
(* The exceptions the driver reports are NoSuchElementException and        *)
(* ValueError (any class that is no NoSuchElementException); the first is  *)
(* the only class of the selenium namespace among them, so a failure of    *)
(* type SELENIUM_ERROR is one whose sub_type is NoSuchElementException.    *)
(***************************************************************************)
\* CbWebDriverListener._reset_pending_find
reset_pending_find(L) ==
    IF L.pending_find # None
    THEN [L EXCEPT !.pending_find = None, !.pending_find_step = 0]
    ELSE L

\* CbWebDriverListener.on_exception(exception, driver): the program state
\* and the listener after the call
on_exception(S, L, t, r, e, shot) ==
    LET set_selenium_failure_type(st) ==
            IF st.failure = "SELENIUM_ERROR"
            THEN [st EXCEPT !.failure = "ELEMENT_NOT_FOUND"] ELSE st
    IN
    IF L.pending_find # None /\ e = "NoSuchElementException"
    THEN \* the try block; `except Exception: pass` swallows what it raises
         IF shot = "raises" \/ L.pending_find_step = 0
         THEN [S |-> S, L |-> L]
         ELSE [S |-> [S EXCEPT !.stepsH[L.pending_find_step] =
                          set_selenium_failure_type(
                              StepEnd([@ EXCEPT !.screenshot = shot], FAILED, e))],
               L |-> L]
    ELSE LET L1 == reset_pending_find(L)
             S1 == end_step(S, t, r, FAILED, e)
         IN  IF S1.exc # None THEN [S |-> S1, L |-> L1]
             ELSE IF S1.ret = 0
             THEN \* set_selenium_failure_type(None): None has no attribute failure
                  [S |-> [S1 EXCEPT !.exc = "AttributeError"], L |-> L1]
             ELSE [S |-> [S1 EXCEPT !.stepsH[S1.ret] =
                              LET st == set_selenium_failure_type(@) IN
                              IF shot = "raises" THEN st
                              ELSE [st EXCEPT !.screenshot = shot]],
                   L |-> L1]

\* before_find starting a step at every call, retries included
before_find_always(S, L, t, r, loc) ==
    LET S1 == start_step(S, t, r) IN
    [S |-> S1, L |-> [pending_find |-> loc, pending_find_step |-> S1.ret]]

\* CbWebDriverListener.before_find(by, value, driver)
before_find(S, L, t, r, loc) ==
    IF L.pending_find = loc THEN [S |-> S, L |-> L]
    ELSE LET S1 == start_step(S, t, r) IN
         [S |-> S1,
          L |-> IF S1.exc # None THEN reset_pending_find(L)
                ELSE [pending_find |-> loc, pending_find_step |-> S1.ret]]

OnException(t, r) ==
    /\ \E e \in {"NoSuchElementException", "ValueError"}, shot \in {"png", "raises"} :
          LET out == on_exception(Cur, lsn, t, r, e, shot) IN
          /\ Commit(out.S)
          /\ lsn' = out.L
          /\ last' = Call("on_exception", t, r, out.S,
                          [kind |-> shot, val |-> 0, err |-> e])
    /\ UNCHANGED <<frames, nm, client, v1, fx, js, tc>>

\* before_navigate_to, before_click, before_change_value_of
BeforeOp(t, r) ==
    /\ LET S == start_step(Cur, t, r) IN
          /\ Commit(S)
          /\ last' = Call("before_op", t, r, S, NoWork)
    /\ lsn' = reset_pending_find(lsn)
    /\ UNCHANGED <<frames, nm, client, v1, fx, js, tc>>

\* after_navigate_to, after_click, after_change_value_of
AfterOp(t, r) ==
    /\ LET S == end_step(Cur, t, r, None, None) IN
          /\ Commit(S)
          /\ last' = Call("after_op", t, r, S, NoWork)
    /\ UNCHANGED <<frames, nm, client, util>>

BeforeFind(t, r) ==
    /\ \E loc \in {"id=login", "css=.submit"} :
          LET out == before_find(Cur, lsn, t, r, loc) IN
          /\ Commit(out.S)
          /\ lsn' = out.L
          /\ last' = Call("before_find", t, r, out.S,
                          [kind |-> loc, val |-> 0, err |-> None])
    /\ UNCHANGED <<frames, nm, client, v1, fx, js, tc>>

\* CbWebDriverListener.after_find: the failure and the screenshot of the
\* pending step are reset, the pending find is forgotten, end_step()
AfterFind(t, r) ==
    /\ LET S0 == IF lsn.pending_find_step = 0 THEN Cur
                 ELSE [Cur EXCEPT !.stepsH[lsn.pending_find_step] =
                                      [@ EXCEPT !.failure = None, !.screenshot = None]]
           S  == end_step(S0, t, r, None, None)
       IN  /\ Commit(S)
           /\ last' = Call("after_find", t, r, S, NoWork)
    /\ lsn' = [pending_find |-> None, pending_find_step |-> 0]
    /\ UNCHANGED <<frames, nm, client, v1, fx, js, tc>>

\* a test driving a browser: the host starts the run, a suite and cases on
\* the main thread, the driver reports what the test does with the browser
NextListen ==
    \/ ~result["R2"].started /\ StartInstance("R2")
    \/ StartSuite("T1", "R2")
    \/ StartCase("T1", "R2")
    \/ OnException("T1", "R2")
    \/ BeforeOp("T1", "R2")
    \/ AfterOp("T1", "R2")
    \/ BeforeFind("T1", "R2")
    \/ AfterFind("T1", "R2")

SpecListen == Init /\ [][NextListen]_vars

(***************************************************************************)
(* Properties of the instrumentation wrappers (SpecStep)                   *)
(***************************************************************************)
\* the frames of the calling thread that the last call left
Popped(t) == {i \in 1..Len(frames[t]) : i > Len(frames'[t])}

\* the number of child sequences of the tree (top-level steps of a case,
\* nested steps of a step) that hold step s
Occurs(cH, sH, s) ==
    Cardinality({c \in 1..Len(cH) : \E i \in 1..Len(cH[c].steps) : cH[c].steps[i] = s})
    + Cardinality({p \in 1..Len(sH) : \E i \in 1..Len(sH[p].steps) : sH[p].steps[i] = s})

\* C1: when get_instance() is None at the time a cb.step-wrapped function is
\* called or a cb.step_context block is entered, the wrapper is a pure
\* pass-through: the value the work returns or the error it raises reaches
\* the caller unchanged, and no result tree, scope or status update changes
\* at entry or at exit.
C1_PassThrough ==
    [][ /\ (last'.op = "enter" /\ last'.r = None) =>
              /\ UNCHANGED <<result, suitesH, casesH, stepsH, ctx, pushes>>
              /\ last'.exc = None
        /\ (last'.op = "exit" /\ last'.r = None) =>
              /\ UNCHANGED <<result, suitesH, casesH, stepsH, ctx, pushes>>
              /\ last'.work.kind = "return" =>
                    last'.ret = last'.work.val /\ last'.exc = None
              /\ last'.work.kind = "raise" =>
                    last'.exc = last'.work.err /\ last'.ret = 0
        /\ (last'.op = "abort" /\ \A i \in 1..Len(frames[last'.t]) :
                                      frames[last'.t][i].rep = None) =>
              /\ UNCHANGED <<result, suitesH, casesH, stepsH, ctx, pushes>>
              /\ last'.exc = last'.work.err
      ]_vars

\* C1 witness: a tree with a case exists, no reporter was active when the
\* wrapper was entered, and the error the work raised reached the caller
C1_Witness ==
    /\ last.op = "exit"
    /\ last.r = None
    /\ last.work.kind = "raise"
    /\ last.exc = "AssertionError"
    /\ casesH # <<>>

\* C2: with an active reporter and a current case, whenever the wrapped work
\* raises an error, the step opened for it ends FAILED and carries a failure,
\* and the same error reaches the caller.
C2_FailedAndReraised ==
    [][ (/\ last'.op \in {"exit", "abort"}
         /\ last'.work.kind = "raise"
         /\ frames[last'.t] # <<>>
         /\ Last(frames[last'.t]).own # 0) =>
            LET s == Last(frames[last'.t]).own IN
            /\ stepsH'[s].status = FAILED
            /\ stepsH'[s].failure # None
            /\ last'.exc = last'.work.err
      ]_vars

\* C3: with an active reporter and a current case, a call of a wrapped
\* function (or a block) adds exactly one step to the tree at entry and none
\* at a normal return; at a normal return that step is ended PASSED and the
\* wrapper returns the value the function returned.
C3_OneStepPassed ==
    [][ /\ (/\ last'.op = "enter"
            /\ last'.r # None
            /\ CurrentCase(last'.t, last'.r) # 0) =>
               LET new == Len(stepsH) + 1 IN
               /\ last'.exc = None
               /\ Len(stepsH') = new
               /\ Occurs(casesH', stepsH', new) = 1
               /\ \A s \in 1..Len(stepsH) : Occurs(casesH', stepsH', s) = Occurs(casesH, stepsH, s)
               /\ Last(frames'[last'.t]).own = new
        /\ (/\ last'.op = "exit"
            /\ last'.work.kind = "return"
            /\ Last(frames[last'.t]).own # 0) =>
               LET s == Last(frames[last'.t]).own IN
               /\ Len(stepsH') = Len(stepsH)
               /\ stepsH'[s].ended
               /\ stepsH'[s].status = PASSED
               /\ last'.exc = None
               /\ last'.ret = last'.work.val
      ]_vars

\* C3 witness: a wrapped function called with a current case returned 42
\* through the wrapper, and its step is a PASSED top-level step of the case
C3_Witness ==
    /\ last.op = "exit"
    /\ last.r = "R1"
    /\ last.work.kind = "return"
    /\ last.ret = 42
    /\ \E c \in 1..Len(casesH) :
          /\ casesH[c].steps # <<>>
          /\ stepsH[casesH[c].steps[1]].status = PASSED

\* C4: a step B started (by a wrapper or directly) while step A is the
\* innermost open step of the calling thread's current case becomes the last
\* child of A and not a top-level step of the case, and B becomes the
\* innermost open step; when B is ended (by its wrapper or directly), A is
\* the innermost open step again.
C4_Nesting ==
    [][ /\ (/\ last'.op \in {"enter", "start_step"}
            /\ last'.r # None
            /\ last'.ret # 0
            /\ CurrentCase(last'.t, last'.r) # 0
            /\ casesH[CurrentCase(last'.t, last'.r)].stack # <<>>) =>
               LET c == CurrentCase(last'.t, last'.r)
                   A == Last(casesH[c].stack)
                   B == last'.ret
               IN  /\ stepsH'[A].steps = Append(stepsH[A].steps, B)
                   /\ casesH'[c].steps = casesH[c].steps
                   /\ casesH'[c].stack = Append(casesH[c].stack, B)
        /\ (/\ last'.op = "exit"
            /\ Last(frames[last'.t]).own # 0) =>
               LET B == Last(frames[last'.t]).own
                   c == Last(frames[last'.t]).case
               IN  /\ stepsH'[B].ended
                   /\ Len(casesH[c].stack) > 1 =>
                         \E A \in 1..Len(stepsH) :
                             /\ stepsH[A].steps # <<>>
                             /\ Last(stepsH[A].steps) = B
                             /\ casesH'[c].stack # <<>>
                             /\ Last(casesH'[c].stack) = A
                   /\ Len(casesH[c].stack) = 1 => casesH'[c].stack = <<>>
      ]_vars

\* C4 witness: a cb.step_context block entered inside a cb.step-wrapped
\* function has ended; its step is the child of the function's step, not a
\* top-level step, and the function's step is the innermost open step again
C4_Witness ==
    /\ last.op = "exit"
    /\ \E t \in Threads :
          /\ last.t = t
          /\ Len(frames[t]) = 1
          /\ frames[t][1].form = "step"
          /\ frames[t][1].own # 0
          /\ LET A == frames[t][1].own
                 c == frames[t][1].case
             IN  /\ stepsH[A].steps # <<>>
                 /\ stepsH[stepsH[A].steps[1]].ended
                 /\ casesH[c].steps = <<A>>
                 /\ casesH[c].stack = <<A>>

\* C5: every step a wrapper started is ended before control leaves the
\* wrapper, on every exit path: when control has left an activation that
\* started a step, the open-step stack of its case is as deep as it was
\* before the activation was entered.
C5_StackRestored ==
    [][ last'.op \in {"exit", "abort"} =>
           \A i \in Popped(last'.t) :
               LET f == frames[last'.t][i] IN
               (f.own # 0 /\ \A j \in Popped(last'.t) : j < i => frames[last'.t][j].own = 0)
                   => /\ stepsH'[f.own].ended
                      /\ Len(casesH'[f.case].stack) = f.base
      ]_vars

(***************************************************************************)
(* Properties of step-name templating (SpecName)                           *)
(***************************************************************************)
\* C6: name resolution never fails: whatever the template and the call
\* arguments, no exception leaves the resolution, and a template whose
\* placeholders cannot be resolved names the step with the literal template
\* text.
C6_NeverFails ==
    nm.pc \in {"named", "done", "raised"} =>
        /\ nm.pc # "raised"
        /\ nm.exc = None
        /\ (~nm.bound \/ Format(nm.tpl, nm.args, nm.attrs).exc # None) => nm.name = nm.tpl

(***************************************************************************)
(* Properties of the run lifecycle (SpecRun)                               *)
(***************************************************************************)
\* C7: after any sequence of start_instance / end_instance calls on any
\* reporters, get_instance() is a STARTED reporter whenever one exists, and
\* None whenever no reporter is STARTED.
C7_ActiveIffStarted ==
    IF \E r \in Reporters : RunState(Cur, r) = "STARTED"
    THEN /\ get_instance(Cur) \in Reporters
         /\ RunState(Cur, get_instance(Cur)) = "STARTED"
    ELSE get_instance(Cur) = None

\* C8: start_suite returns None and appends no suite whenever the run of the
\* reporter is not STARTED (before start_instance and after end_instance);
\* in STARTED it creates a suite, appends it to the run and makes it the
\* calling thread's current suite.
C8_SuiteOnlyWhenStarted ==
    [][ last'.op = "start_suite" =>
           IF RunState(Cur, last'.r) # "STARTED"
           THEN /\ last'.ret = 0
                /\ UNCHANGED <<suitesH, result, ctx>>
           ELSE /\ last'.ret = Len(suitesH) + 1
                /\ Len(suitesH') = Len(suitesH) + 1
                /\ result'[last'.r].suites = Append(result[last'.r].suites, last'.ret)
                /\ OdGet(ctx'[last'.t], "suite") = last'.ret
      ]_vars

(***************************************************************************)
(* Properties of the reporter and its scope registry (Spec)                *)
(***************************************************************************)
\* C9: start_case called by a thread with no current suite returns None,
\* creates no case and sends no status update; otherwise the new case is
\* appended as the last case of the current suite and becomes the calling
\* thread's current case.
C9_CaseNeedsSuite ==
    [][ last'.op = "start_case" =>
           IF CurrentSuite(last'.t, last'.r) = 0
           THEN /\ last'.ret = 0
                /\ last'.exc = None
                /\ last'.sent = 0
                /\ UNCHANGED <<suitesH, casesH, pushes>>
           ELSE LET s == CurrentSuite(last'.t, last'.r) IN
                /\ last'.ret = Len(casesH) + 1
                /\ Len(casesH') = Len(casesH) + 1
                /\ suitesH'[s].cases = Append(suitesH[s].cases, last'.ret)
                /\ OdGet(ctx'[last'.t], "case") = last'.ret
      ]_vars

\* C10: start_step, end_step, start_case_hook and end_case_hook called on
\* any thread while that thread has no current case return None without
\* raising and leave the result tree and every thread's scope unchanged.
C10_NoCaseNoOp ==
    [][ (/\ last'.op \in {"start_step", "end_step", "start_case_hook", "end_case_hook"}
         /\ CurrentCase(last'.t, last'.r) = 0) =>
            /\ last'.ret = 0
            /\ last'.exc = None
            /\ UNCHANGED <<result, suitesH, casesH, stepsH, ctx>>
      ]_vars

\* C11: thread inheritance: when a case is current on the initializing thread
\* and start_step is called on another thread whose scope holds no entry, the
\* new step is attached under the case that is current on the initializing
\* thread at the time of the call (as a top-level step, or under the
\* innermost open step of that case).
C11_ThreadInheritance ==
    [][ (/\ last'.op = "start_step"
         /\ last'.t # init_thread(last'.r)
         /\ ctx[last'.t] = <<>>
         /\ OdGet(ctx[init_thread(last'.r)], "case") # 0) =>
            LET c   == OdGet(ctx[init_thread(last'.r)], "case")
                new == Len(stepsH) + 1
            IN  /\ last'.exc = None
                /\ last'.ret = new
                /\ Len(stepsH') = new
                /\ casesH'[c].stack = Append(casesH[c].stack, new)
                /\ IF casesH[c].stack = <<>>
                   THEN casesH'[c].steps = Append(casesH[c].steps, new)
                   ELSE stepsH'[Last(casesH[c].stack)].steps
                            = Append(stepsH[Last(casesH[c].stack)].steps, new)
                /\ \A d \in 1..Len(casesH) : d # c => casesH'[d] = casesH[d]
      ]_vars

\* C11 witness: T2, whose scope held no entry, started a step while the
\* second case was current on T1; the step is a top-level step of that case
C11_Witness ==
    /\ last.op = "start_step"
    /\ last.t = "T2"
    /\ last.empty
    /\ last.ret # 0
    /\ OdGet(ctx["T1"], "case") = 2
    /\ casesH[1].steps = <<>>
    /\ casesH[2].steps = <<last.ret>>

\* what thread u reads from the scope under key k: the value, or the
\* exception the read raises
ScopeRead(c, u, r, k) ==
    IF ContextRaises(c, u, r) THEN [exc |-> "StopIteration", val |-> 0]
    ELSE [exc |-> None, val |-> ContextGet(c, u, r, k)]

ScopeKeys == {"suite", "case"}

\* C12: scope isolation between threads: a call made by a non-initializing
\* thread changes the scope entries of no other thread, and every other
\* thread reads the same values as before; once a thread holds entries (an
\* inherited snapshot included), calls made by the initializing thread do
\* not change what that thread reads.
C12_ScopeIsolation ==
    [][ /\ (last'.r # None /\ last'.t # init_thread(last'.r)) =>
              \A u \in Threads \ {last'.t} :
                  /\ ctx'[u] = ctx[u]
                  /\ \A k \in ScopeKeys :
                        ScopeRead(ctx', u, last'.r, k) = ScopeRead(ctx, u, last'.r, k)
        /\ (last'.r # None /\ last'.t = init_thread(last'.r)) =>
              \A u \in Threads \ {last'.t} :
                  ctx[u] # <<>> =>
                      \A k \in ScopeKeys :
                          ScopeRead(ctx', u, last'.r, k) = ScopeRead(ctx, u, last'.r, k)
      ]_vars

\* C12 witness: T2 holds a scope of its own (an inherited entry and a suite
\* it started itself) that differs from the scope of T1, and T1 has started
\* a case since
C12_Witness ==
    /\ last.op = "start_case"
    /\ last.t = "T1"
    /\ last.ret # 0
    /\ HasKey(ctx["T2"], "suite")
    /\ OdGet(ctx["T2"], "suite") # OdGet(ctx["T1"], "suite")
    /\ OdGet(ctx["T2"], "case") # OdGet(ctx["T1"], "case")

(***************************************************************************)
(* Properties of the status-push calls (SpecPush)                          *)
(***************************************************************************)
\* C13: every status-push call of RuntimeApiV2 (add_instance_result,
\* update_instance_status, update_case_status, update_suite_status) returns
\* normally to its caller whatever happens: a connection failure, a timeout,
\* a failure to build the payload or a response with an error status never
\* raises out of the call; a response with an error status is a request
\* that was sent.
C13_PushNeverRaises ==
    rt.pc = "done" =>
        /\ rt.exc = None
        /\ rt.net \in {"http401", "http500"} /\ rt.perr = None => rt.posted

\* C13 witness: update_suite_status returned although the request timed out,
\* after an earlier call had failed as well; both failures were logged
C13_Witness ==
    /\ rt.pc = "done"
    /\ rt.call = "update_suite_status"
    /\ rt.net = "Timeout"
    /\ rt.perr = None
    /\ rt.exc = None
    /\ rt.logged
    /\ rt.nlog = 2

(***************************************************************************)
(* Properties of the status updates of a run (SpecCase)                    *)
(***************************************************************************)
\* what a reporter call shows its caller and leaves behind: the value
\* returned, the exception raised, the result tree and every thread's scope
Visible(S) ==
    [ret |-> S.ret, exc |-> S.exc, result |-> S.result, suitesH |-> S.suitesH,
     casesH |-> S.casesH, stepsH |-> S.stepsH, ctx |-> S.ctx]

\* the state with the backend doing n
WithNet(n) == [Cur EXCEPT !.net = n]

\* what the call just made showed its caller and left behind
VisibleNow ==
    [ret |-> last'.ret, exc |-> last'.exc, result |-> result', suitesH |-> suitesH',
     casesH |-> casesH', stepsH |-> stepsH', ctx |-> ctx']

\* C14: loss of the reporting backend cannot affect the run: whatever the
\* backend does with the status pushes (success, transport error, error
\* status), and at whatever point of the run it starts or stops doing so,
\* every start_case and end_case returns the same value and leaves the same
\* result tree and the same scopes as the same call on a reporter with no
\* API client configured, and every start_suite and end_suite the same as
\* with a backend that answers.
C14_BackendIndependent ==
    [][ LET t == last'.t
            w == last'.work
        IN  /\ last'.op = "start_case" =>
                  VisibleNow = Visible(start_case(Cur, t, "R2"))
            /\ last'.op = "end_case" =>
                  VisibleNow = Visible(end_case(Cur, t, "R2", w.status, w.err,
                                                w.kind = "skip_api"))
            /\ last'.op = "start_suite" =>
                  VisibleNow = Visible(start_suite(WithNet("ok"), t, "R1"))
            /\ last'.op = "end_suite" =>
                  VisibleNow = Visible(end_suite(WithNet("ok"), t, "R1"))
      ]_vars

\* C14 witness: the second case was ended and returned to the caller while
\* the backend was unreachable and the client logged the failed push
C14_Witness ==
    /\ last.op = "end_case"
    /\ net = "ConnectionError"
    /\ last.logged = 1
    /\ last.exc = None
    /\ last.ret = 2
    /\ casesH[2].ended

\* C15: with an API client configured, every start_case that creates a case
\* hands exactly one "Running" update for the new case to the client, every
\* end_case with a current case hands over exactly one "Finished" update
\* carrying the status of that case unless skip_api is set, every other
\* call (no-op calls included) hands over nothing, and a "Finished" update
\* of a case is always preceded by its "Running" update and carries the
\* status the case keeps.
C15_CaseStatusUpdates ==
    [][ (last'.r # None /\ api_client(last'.r)) =>
          /\ IF last'.op = "start_case" /\ last'.ret # 0
             THEN /\ last'.sent = 1
                  /\ last'.ret = Len(casesH) + 1
                  /\ pushes' = pushes \cup {[kind |-> "Running", case |-> last'.ret,
                                              status |-> None]}
             ELSE IF last'.op = "end_case" /\ last'.ret # 0 /\ last'.work.kind # "skip_api"
             THEN /\ last'.sent = 1
                  /\ pushes' = pushes \cup {[kind |-> "Finished", case |-> last'.ret,
                                              status |-> casesH'[last'.ret].status]}
             ELSE /\ last'.sent = 0
                  /\ pushes' = pushes
          /\ \A p \in pushes' :
                p.kind = "Finished" =>
                    /\ [kind |-> "Running", case |-> p.case, status |-> None] \in pushes'
                    /\ p.status = casesH'[p.case].status
                    /\ p.status \in {PASSED, FAILED, SKIPPED}
      ]_vars

\* C15 witness: the first case was reported Running and then Finished as
\* FAILED; the second case was ended with skip_api and no Finished update
\* was handed over for it
C15_Witness ==
    /\ last.op = "end_case"
    /\ last.work.kind = "skip_api"
    /\ last.ret = 2
    /\ last.sent = 0
    /\ [kind |-> "Running", case |-> 1, status |-> None] \in pushes
    /\ [kind |-> "Finished", case |-> 1, status |-> FAILED] \in pushes
    /\ [kind |-> "Running", case |-> 2, status |-> None] \in pushes
    /\ \A p \in pushes : p.kind = "Finished" => p.case = 1

(***************************************************************************)
(* Properties of result polling (SpecPoll)                                 *)
(***************************************************************************)
\* the responses received so far
Seen == [j \in 1..Len(poll.log) |-> poll.log[j].resp]

\* the first k responses received were all HTTP 202
All202(k) == \A j \in 1..k : Seen[j] = "202"

\* C16: result polling retries exactly until success: while the backend has
\* answered HTTP 202 to all k polls so far (k < 10) the call goes on polling,
\* and when it then answers HTTP 200 with a non-empty body the call has
\* issued exactly k+1 GET requests and returns that body.
C16_RetriesUntilSuccess ==
    /\ (poll.pc # "idle" /\ Len(Seen) < RESULT_POLLING_RETRIES /\ All202(Len(Seen))) =>
            /\ poll.pc = "loop"
            /\ poll.gets = Len(Seen)
    /\ (Seen # <<>> /\ Last(Seen) = "200" /\ All202(Len(Seen) - 1)) =>
            /\ poll.pc = "done"
            /\ poll.ret = "data"
            /\ poll.exc = None
            /\ poll.gets = Len(Seen)

\* C16 witness: three polls answered 202, the fourth the result
C16_Witness ==
    /\ poll.pc = "done"
    /\ Seen = <<"202", "202", "202", "200">>
    /\ poll.gets = 4
    /\ poll.ret = "data"

\* C17: when a poll receives HTTP 404, on the first call or after any
\* number of unsuccessful polls, the call returns None at once: it is over
\* (no further request) and no sleep followed the 404.
C17_NotFoundAtOnce ==
    (Seen # <<>> /\ Last(Seen) = "404") =>
        /\ poll.pc = "done"
        /\ poll.ret = None
        /\ poll.exc = None
        /\ Last(poll.log).waits = <<>>
        /\ poll.gets = Len(Seen)

\* C17 witness: two polls answered 202, the third 404
C17_Witness ==
    /\ poll.pc = "done"
    /\ Seen = <<"202", "202", "404">>
    /\ poll.ret = None

\* C18: result polling is bounded: whatever the backend answers, the call
\* never issues more than 10 GET requests and is over after the tenth, and
\* when all 10 answers were HTTP 202 it has issued exactly 10 requests and
\* returns None.
C18_Bounded ==
    /\ poll.gets <= RESULT_POLLING_RETRIES
    /\ poll.gets = Len(Seen)
    /\ poll.gets = RESULT_POLLING_RETRIES => poll.pc = "done"
    /\ (Len(Seen) = RESULT_POLLING_RETRIES /\ All202(RESULT_POLLING_RETRIES)) =>
            /\ poll.ret = None
            /\ poll.exc = None

\* C18 witness: ten polls, each answered 202, and the call returned None
C18_Witness ==
    /\ poll.pc = "done"
    /\ Len(Seen) = 10
    /\ All202(10)
    /\ poll.ret = None

\* C19: polling backoff is linear: the wait that follows the n-th
\* unsuccessful poll (HTTP 202 or HTTP 200 with an empty body) is exactly
\* 1 + (n-1) seconds, and it is one single sleep.
C19_LinearBackoff ==
    \A n \in 1..Len(poll.log) :
        poll.log[n].resp \in {"202", "200empty"} =>
            poll.log[n].waits = <<1 + (n - 1) * RESULT_POLLING_INTERVAL_INCREASE>>

\* C19 witness: a 202, an empty 200 and a 202 were followed by waits of 1, 2
\* and 3 seconds, and a fourth request was made
C19_Witness ==
    /\ Len(poll.log) = 4
    /\ poll.log[1] = [resp |-> "202", waits |-> <<1>>]
    /\ poll.log[2] = [resp |-> "200empty", waits |-> <<2>>]
    /\ poll.log[3] = [resp |-> "202", waits |-> <<3>>]

(***************************************************************************)
(* Properties of CbApiError (SpecErr)                                      *)
(***************************************************************************)
\* C20 as stated: the message of a CbApiError built from a response is
\* determined by the response: 500, 401 and 404 give their fixed messages,
\* 422 gives errorMessage, ": " and the joined field errors, or "Validation
\* Failed" when the body is unparsable or has no errorMessage, and any
\* other status gives the reason phrase.
C20_MessageFromResponse ==
    (cerr.pc = "built" /\ cerr.response) =>
        LET b == cerr.body IN
        IF cerr.status = 500 THEN cerr.msg = <<"Internal server error, please try again later.">>
        ELSE IF cerr.status = 401 THEN cerr.msg = <<"Authentication failed, invalid API key.">>
        ELSE IF cerr.status = 404 THEN cerr.msg = <<"A record or an endpoint does not exist.">>
        ELSE IF cerr.status = 422 THEN
            /\ (b.kind = "notjson" \/ b.em = "") => cerr.msg = <<"Validation Failed">>
            /\ (b.kind = "object" /\ b.em # "" /\ b.errs # <<>> /\ b.strs) =>
                    cerr.msg = <<b.em, ": ">> \o Join(b.errs, " ")
        ELSE cerr.msg = <<cerr.reason>>

\* C20 amended: the message of a CbApiError built from a response is
\* determined by the response alone (the message argument plays no part):
\* 500, 401 and 404 give their fixed messages, 204 gives "A record or an
\* endpoint does not have content.", 422 gives "Validation Failed" when the
\* body is unparsable, is no JSON object, has no errorMessage or has field
\* errors that are not text, the errorMessage alone when there are no field
\* errors, and otherwise the errorMessage, ": " and the field errors joined
\* by single spaces; any
\* other status gives the reason phrase, or the status in decimal when the
\* transport supplies no reason phrase.
C20_MessageAmended ==
    (cerr.pc = "built" /\ cerr.response) =>
        LET b == cerr.body IN
        /\ cerr.status = 500 => cerr.msg = <<"Internal server error, please try again later.">>
        /\ cerr.status = 401 => cerr.msg = <<"Authentication failed, invalid API key.">>
        /\ cerr.status = 404 => cerr.msg = <<"A record or an endpoint does not exist.">>
        /\ cerr.status = 204 => cerr.msg = <<"A record or an endpoint does not have content.">>
        /\ cerr.status = 422 =>
              /\ (b.kind # "object" \/ b.em = "") => cerr.msg = <<"Validation Failed">>
              /\ (b.kind = "object" /\ b.em # "" /\ b.errs = <<>>) => cerr.msg = <<b.em>>
              /\ (b.kind = "object" /\ b.em # "" /\ b.errs # <<>> /\ ~b.strs) =>
                      cerr.msg = <<"Validation Failed">>
              /\ (b.kind = "object" /\ b.em # "" /\ Len(b.errs) = 1 /\ b.strs) =>
                      cerr.msg = <<b.em, ": ", b.errs[1]>>
              /\ (b.kind = "object" /\ b.em # "" /\ Len(b.errs) = 2 /\ b.strs) =>
                      cerr.msg = <<b.em, ": ", b.errs[1], " ", b.errs[2]>>
        /\ cerr.status \notin {500, 401, 404, 204, 422} =>
              /\ cerr.reason # "" => cerr.msg = <<cerr.reason>>
              /\ cerr.reason = "" => cerr.msg = <<ToString(cerr.status)>>
        /\ cerr.msg # <<>>
        /\ cerr.given = "boom" => cerr.msg # <<"boom">>

\* C20 witness: the error built from a 422 response with the body
\* {errorMessage: "bad input", errors: ["field required"]}
C20_Witness ==
    /\ cerr.pc = "built"
    /\ cerr.response
    /\ cerr.status = 422
    /\ cerr.given = "boom"
    /\ cerr.msg = <<"bad input", ": ", "field required">>

(***************************************************************************)
(* Properties of the surfaced V1 calls (SpecV1)                            *)
(***************************************************************************)
\* C21: a surfaced V1 call (run_test_case, run_test_suite, run_monitor,
\* get_run_status) that receives an HTTP 204 response raises to its caller
\* an error whose message is the "no content" classification, "A record or
\* an endpoint does not have content."
C21_NoContentMessage ==
    (v1.pc = "done" /\ v1.resp.exc = None /\ v1.resp.status = 204) =>
        /\ v1.exc = "CbApiError"
        /\ v1.msg = <<"A record or an endpoint does not have content.">>

\* the outcome of a V1 call is a failure: a transport exception, an error
\* status (a 404 on a run trigger excepted) or a 2xx response without the
\* expected payload
V1Failing(call, resp) ==
    IF resp.exc # None THEN TRUE
    ELSE IF raise_for_status(resp.status)
    THEN ~(call # "get_run_status" /\ resp.status = 404)
    ELSE \/ resp.body.kind # "object"
         \/ resp.body.falsy
         \/ call # "get_run_status" /\ ~resp.body.id

\* the responses of a result poll that are failures: a transport exception,
\* an error status, a 200 without a parsable or with an empty payload
PollFailing == {"ConnectionError", "500", "200bad", "200empty"}

\* C22: every failing outcome of a triggering, query or result V1 call
\* (run_test_case, run_test_suite, run_monitor, get_run_status,
\* get_result_by_run_id) reaches the caller as a CbApiError and never as
\* another exception type: an error status, a transport exception, a 2xx
\* response whose expected payload is missing; a 404 on a run trigger is no
\* failure and gives None.
C22_OnlyCbApiError ==
    /\ v1.pc = "done" =>
          /\ v1.exc \in {None, "CbApiError"}
          /\ V1Failing(v1.call, v1.resp) => v1.exc = "CbApiError"
          /\ (v1.call # "get_run_status" /\ v1.resp.exc = None /\ v1.resp.status = 404) =>
                 (v1.exc = None /\ v1.ret = None)
    /\ poll.pc = "done" =>
          /\ poll.exc \in {None, "CbApiError"}
          /\ Seen[Len(Seen)] \in PollFailing => poll.exc = "CbApiError"

(***************************************************************************)
(* Properties of ending suites and cases (SpecCase)                        *)
(***************************************************************************)
\* the statuses of the cases of suite s after the step, in execution order
CaseStatuses(s) ==
    [i \in 1..Len(suitesH'[s].cases) |-> casesH'[suitesH'[s].cases[i]].status]

C24_ReEndIsNoOp ==
    [][ IF last'.op = "end_case" /\ last'.ret # 0
        THEN casesH[last'.ret].ended =>
                 /\ casesH'[last'.ret] = casesH[last'.ret]
                 /\ last'.exc = None
                 /\ last'.sent = 0
                 /\ pushes' = pushes
        ELSE IF last'.op = "end_suite" /\ last'.ret # 0
        THEN suitesH[last'.ret].ended =>
                 /\ suitesH'[last'.ret] = suitesH[last'.ret]
                 /\ last'.exc = None
                 /\ last'.sent = 0
                 /\ pushes' = pushes
        ELSE TRUE
      ]_vars

(***************************************************************************)
(* Properties of failure classification and message cleaning (SpecFail)    *)
(***************************************************************************)
\* C25: get_failure_from_exception gives every exception exactly one
\* failure type: SELENIUM_ERROR for a class from the namespace
\* selenium.common.exceptions, otherwise ASSERT_ERROR for AssertionError and
\* its subclasses, GENERAL_ERROR for everything else; the subtype is the
\* name of the class, the failure is fatal, and no exception gives no
\* failure.
C25_Classification ==
    fx.pc = "done" =>
        IF fx.exc = None THEN fx.failure.ret = None
        ELSE LET cls == ExcClasses[fx.exc] IN
             /\ fx.failure.ret = "FailureResult"
             /\ fx.failure.type =
                    IF StartsWith(cls.module, <<"selenium", "common", "exceptions">>)
                    THEN "SELENIUM_ERROR"
                    ELSE IF cls.assertion THEN "ASSERT_ERROR" ELSE "GENERAL_ERROR"
             /\ fx.failure.sub_type = cls.name
             /\ fx.failure.is_fatal

\* the text pieces of s that are not whitespace, in order
NonSpace(s) == LET keep(x) == x # " " IN SelectSeq(s, keep)

\* the text before the first "Stacktrace:" marker
BeforeTrace(s) ==
    IF Contains(s, "Stacktrace:")
    THEN SubSeq(s, 1, (CHOOSE i \in 1..Len(s) :
                          s[i] = "Stacktrace:" /\ \A j \in 1..(i - 1) : s[j] # "Stacktrace:") - 1)
    ELSE s

\* the example: "Message: element not clickable" followed by a stack trace
\* section cleans to "element not clickable"
CleanExample ==
    fx.text = <<"Message:", " ", "element not clickable", " ", "Stacktrace:">> =>
        fx.failure.message = [absent |-> FALSE, text |-> <<"element not clickable">>]

\* C26 as stated: for every input the cleaned message holds no
\* "Stacktrace:" marker and does not begin with "Message:"; the example
\* cleans to "element not clickable"; an empty result is reported as absent.
C26_CleanedMessage ==
    (fx.pc = "done" /\ fx.exc # None) =>
        LET msg == fx.failure.message IN
        /\ ~Contains(msg.text, "Stacktrace:")
        /\ ~StartsWith(msg.text, <<"Message:">>)
        /\ CleanExample
        /\ msg.absent <=> msg.text = <<>>

\* C26 amended: the cleaned message is the text before the first
\* "Stacktrace:" marker without the whitespace around it and without one
\* leading "Message:" prefix: it holds no "Stacktrace:" marker, neither
\* begins nor ends with whitespace, and begins with "Message:" exactly when
\* the input carries a second "Message:" directly after the leading one;
\* the example cleans to "element not clickable"; an empty result is
\* reported as absent.
C26_CleanedAmended ==
    (fx.pc = "done" /\ fx.exc # None) =>
        LET msg == fx.failure.message
            nz  == NonSpace(BeforeTrace(fx.text))
        IN
        /\ ~Contains(msg.text, "Stacktrace:")
        /\ msg.text # <<>> => (msg.text[1] # " " /\ msg.text[Len(msg.text)] # " ")
        /\ NonSpace(msg.text) = IF StartsWith(nz, <<"Message:">>) THEN Tail(nz) ELSE nz
        /\ StartsWith(msg.text, <<"Message:">>) <=> StartsWith(nz, <<"Message:", "Message:">>)
        /\ CleanExample
        /\ msg.absent <=> msg.text = <<>>

\* C26 witness: the example was cleaned, and so was the text of a
\* ValueError
C26_Witness ==
    /\ fx.pc = "done"
    /\ fx.exc = "ValueError"
    /\ fx.text = <<"Message:", " ", "element not clickable", " ", "Stacktrace:">>
    /\ fx.failure.message.text = <<"element not clickable">>
    /\ ~fx.failure.message.absent

(***************************************************************************)
(* Properties of the end of a run (SpecRun) and of failed pushes (SpecPush)*)
(***************************************************************************)
\* C29: end_instance on a STARTED reporter that has an API client hands the
\* serialized run result to the API client for delivery (an instance-result
\* post), in addition to writing the local artifact.
C29_ResultHandedToClient ==
    [][ (/\ last'.op = "end_instance"
         /\ api_client(last'.r)
         /\ RunState(Cur, last'.r) = "STARTED") =>
            /\ result'[last'.r].ended
            /\ \E p \in pushes' \ pushes : p.kind = "InstanceResult"
      ]_vars

\* C30: every status-push call that fails, by a transport exception or by
\* an error status returned by the server (401, 500), records a local
\* failure signal: an error log entry for that call.
C30_FailureLogged ==
    (rt.pc = "done" /\ rt.perr = None /\ rt.net # "ok") =>
        (rt.logged /\ rt.nlog >= 1)

(***************************************************************************)
(* Properties of serialization and request bodies (SpecJson)               *)
(***************************************************************************)
\* a JSON value holds no member whose value is null, at any depth
RECURSIVE Sparse(_)
Sparse(j) ==
    /\ \A k \in DOMAIN j.f : j.f[k] # "null"
    /\ \A i \in 1..Len(j.failure) : j.failure[i].t # "null" /\ Sparse(j.failure[i])
    /\ \A i \in 1..Len(j.kids) : Sparse(j.kids[i])

\* C27: every JSON body sent on the status-push API (instance result,
\* run / instance status, case status, suite status) is sparse: it holds a
\* key only for an attribute whose value is present and never a key with a
\* null value.
C27_SparseBodies ==
    (js.pc = "done" /\ js.op # "to_json" /\ js.exc = None) =>
        /\ Sparse(js.doc)
        /\ js.op = "update_status" =>
               \A k \in DOMAIN JsonKeys[js.arg.cls] :
                   k \in DOMAIN js.doc.f <=> JsonKeys[js.arg.cls][k] \notin js.arg.absent

\* every value found where an entity of class cls is expected is projected
\* to null unless it is such an entity, at any depth
RECURSIVE Projected(_, _, _)
Projected(v, j, cls) ==
    IF v.cls # cls THEN j.t = "null"
    ELSE /\ j.t = "obj"
         /\ Len(j.kids) = Len(v.kids)
         /\ \A i \in 1..Len(v.kids) : Projected(v.kids[i], j.kids[i], ChildClass(cls))
         /\ cls \in {"CaseResult", "StepResult"} =>
                /\ Len(j.failure) = 1
                /\ j.failure[1].t = IF v.failure = "FailureResult" THEN "obj" ELSE "null"

\* C28: serialization is best-effort: wherever to_json expects a Run, Suite,
\* Case, Step or Failure, its top-level argument included, a value that is
\* not of that entity type is projected to null and to_json does not raise
\* because of it.
C28_BestEffort ==
    (js.pc = "done" /\ js.op = "to_json") =>
        /\ js.exc = None
        /\ Projected(js.arg, js.doc, "TestResult")

(***************************************************************************)
(* Properties of the failure location (SpecFail)                           *)
(***************************************************************************)
\* the entries of traceback tb that belong to the test code: the file is not
\* under a site-packages directory and is not a synthetic name such as
\* <string>
UserFrames(tb) ==
    {i \in 1..Len(tb) : /\ \A j \in 1..Len(tb[i].file) : tb[i].file[j] # "site-packages"
                        /\ tb[i].file[1] # "<"}

\* C31: the location of the failure is file:line of the deepest traceback
\* entry (the one closest to the raise point, the last in tb_next order)
\* that belongs to the test code; library and synthetic frames around it
\* change nothing, and without such an entry (or without a traceback) the
\* location stays unset.
C31_Location ==
    (fx.pc = "done" /\ fx.exc # None) =>
        LET q == UserFrames(fx.tb) IN
        IF q = {} THEN fx.failure.location = <<>>
        ELSE LET i == CHOOSE j \in q : \A k \in q : j >= k IN
             fx.failure.location = fx.tb[i].file \o <<":", ToString(fx.tb[i].line)>>

\* a failure located at a frame of the test code that has another frame of
\* the test code before it (nearer to the handler) and a library frame after
\* it (nearer to the raise point)
C31_Witness ==
    /\ fx.pc = "done" /\ fx.exc # None
    /\ Len(fx.tb) = 3
    /\ 1 \in UserFrames(fx.tb) /\ 2 \in UserFrames(fx.tb) /\ 3 \notin UserFrames(fx.tb)
    /\ fx.tb[1] # fx.tb[2]
    /\ fx.failure.location = fx.tb[2].file \o <<":", ToString(fx.tb[2].line)>>

(***************************************************************************)
(* Properties of the scope registry and its cleanup (SpecCtx)              *)
(***************************************************************************)
\* the registry T holds a key for thread t
HasEntry(T, t) == \E i \in 1..Len(T.keys) : T.keys[i] = t

C33_InheritsMostRecent ==
    [][ \A t \in Threads :
            (/\ last'.op = "get" /\ last'.t = t
             /\ t # init_thread("R1")
             /\ ctx[t] = <<>> /\ ctx'[t] # <<>>) => ctx'[t] = tc.recent
      ]_vars

\* C39: a cleanup pass that runs while other threads access their scope,
\* a first access that creates an entry included, ends without an exception
\* and with the entry of every live thread in place.
C39_CleanupConcurrent ==
    [][ (tc.pc = "iter" /\ tc'.pc = "idle") =>
            /\ last'.exc = None
            /\ \A t \in tc'.alive : /\ ctx'[t] = ctx[t]
                                    /\ HasEntry(tc, t) => HasEntry(tc', t)
      ]_vars

(***************************************************************************)
(* Properties of the reporter under callers without discipline (SpecFree,  *)
(* SpecRun)                                                                *)
(***************************************************************************)
\* the steps thread t has open in case c, oldest first
OpenBy(c, t) ==
    LET mine(s) == stepsH[s].owner = t IN SelectSeq(casesH[c].stack, mine)

\* C34: with two threads attached to one case, every end_step ends the step
\* the calling thread itself started last and still has open, and a step
\* started by one thread never becomes a child of a step that another
\* thread has open.
C34_OwnStepsOnly ==
    [][ /\ (last'.op = "end_step" /\ last'.exc = None /\ Len(stepsH') = Len(stepsH)) =>
              LET t == last'.t
                  c == CurrentCase(t, last'.r)
              IN  IF c = 0 \/ OpenBy(c, t) = <<>> THEN last'.ret = 0
                  ELSE last'.ret = Last(OpenBy(c, t))
        /\ (last'.op = "start_step" /\ Len(stepsH') = Len(stepsH) + 1) =>
              \A p \in 1..Len(stepsH) :
                  (\E i \in 1..Len(stepsH'[p].steps) : stepsH'[p].steps[i] = Len(stepsH'))
                      => stepsH[p].owner = last'.t
      ]_vars

\* the reporter r has no current suite and no current case on any thread
\* with the scopes c
NoScope(c, r) ==
    \A t \in Threads :
        ContextRaises(c, t, r)
        \/ (ContextGet(c, t, r, "suite") = 0 /\ ContextGet(c, t, r, "case") = 0)

\* C38: scope is per reporter: nothing another reporter does gives a
\* reporter a current suite or a current case, so a reporter has neither on
\* any thread until its own start_suite / start_case.
C38_ScopePerReporter ==
    [][ \A r \in Reporters :
            (last'.r # r /\ NoScope(ctx, r)) => NoScope(ctx', r)
      ]_vars

\* C40: no child is appended to an entity that has ended: an ended suite
\* gets no further case, an ended case no further step or hook.
C40_NoChildAfterEnd ==
    [][ /\ \A s \in 1..Len(suitesH) :
               suitesH[s].ended => suitesH'[s].cases = suitesH[s].cases
        /\ \A c \in 1..Len(casesH) :
               casesH[c].ended => /\ casesH'[c].steps = casesH[c].steps
                                  /\ casesH'[c].hooks = casesH[c].hooks
      ]_vars

(***************************************************************************)
(* Properties of the WebDriver listener (SpecListen)                       *)
(***************************************************************************)
\* the open steps of the current case of thread t (<<>>: no current case)
OpenSteps(t, r) ==
    IF CurrentCase(t, r) = 0 THEN <<>> ELSE casesH[CurrentCase(t, r)].stack

\* the step the listener holds as pending is the innermost open step of the
\* current case of thread t
FindPending(t, r) ==
    /\ lsn.pending_find # None
    /\ lsn.pending_find_step # 0
    /\ OpenSteps(t, r) # <<>>
    /\ Last(OpenSteps(t, r)) = lsn.pending_find_step

C36_PendingFindClosed ==
    [][ LET id == lsn.pending_find_step IN
        (/\ FindPending(last'.t, last'.r)
         /\ \/ last'.op = "before_op"
            \/ last'.op = "before_find" /\ lsn.pending_find # last'.work.kind
         /\ Len(stepsH') = Len(stepsH) + 1) =>
            /\ stepsH'[id].ended /\ stepsH'[id].status = FAILED
            /\ \A i \in 1..Len(stepsH'[id].steps) : stepsH'[id].steps[i] # Len(stepsH')
      ]_vars

\* C37: every callback of the listener called while no case is current,
\* on_exception with any exception included, returns without raising and
\* changes nothing in the result tree.
C37_SilentWithoutCase ==
    [][ (/\ last'.op \in {"on_exception", "before_op", "after_op", "before_find",
                          "after_find"}
         /\ CurrentCase(last'.t, last'.r) = 0) =>
            /\ last'.exc = None
            /\ <<suitesH, casesH, stepsH>>' = <<suitesH, casesH, stepsH>>
      ]_vars

====
